---- MODULE Spec2Model ----
(***************************************************************************)
(* A model of the conflict-detection engine of the Cassandra extension:    *)
(*   - conflictState.ts     the differ (ConflictState)                     *)
(*   - conflictDetector.ts  the polling orchestrator (ConflictDetector)    *)
(*   - mergeTreeParser.ts   the two merge-tree output parsers              *)
(*   - gitOps.ts, config.ts the tool wrapper and the configuration         *)
(*                                                                         *)
(* Text is modelled as a sequence of one-character strings, so that the    *)
(* regular expressions, split, trim and sort of the source are computed    *)
(* character by character.                                                 *)
(***************************************************************************)
EXTENDS Integers, Sequences, FiniteSets, TLC

(***************************************************************************)
(* Bounds of the model.                                                    *)
(***************************************************************************)
\* number of distinct file paths the environment may name
NPaths == 2

(***************************************************************************)
(* Characters and text.                                                    *)
(***************************************************************************)
\* The characters of the model in UTF-16 code-unit order (the order of
\* Array.prototype.sort without a comparator and of the < on strings).
Alphabet ==
  << "\t", "\n", "\r", " ", ".", "0", "1", "2", "3", "4", "5", "6", "7", "8", "9",
     "M", "T", "a", "b", "c", "d", "e", "f", "g", "h", "i", "m", "n", "o", "r",
     "s", "t", "u", "v", "x" >>

CharCode(c) == CHOOSE i \in 1..Len(Alphabet) : Alphabet[i] = c

\* a < b on strings: lexicographic by code unit, a proper prefix first
RECURSIVE StrLess(_, _)
StrLess(a, b) ==
  IF b = << >> THEN FALSE
  ELSE IF a = << >> THEN TRUE
  ELSE IF Head(a) = Head(b) THEN StrLess(Tail(a), Tail(b))
  ELSE CharCode(Head(a)) < CharCode(Head(b))

\* Array.prototype.sort() with the default comparator, on a list of strings
RECURSIVE SortStrings(_)
SortStrings(xs) ==
  IF xs = << >> THEN << >>
  ELSE LET rest == SortStrings(Tail(xs))
           x == Head(xs)
           before == SelectSeq(rest, LAMBDA y : StrLess(y, x))
           after == SelectSeq(rest, LAMBDA y : ~StrLess(y, x))
       IN  before \o << x >> \o after

\* a run of n copies of character c
Rep(c, n) == [i \in 1..n |-> c]

(***************************************************************************)
(* conflictState.ts: the snapshot type and the differ.                     *)
(***************************************************************************)
ConflictStatus == { "clean", "conflicts", "error", "paused", "checking" }

ErrorKinds == { "fetch-failed", "no-head", "branch-missing", "merge-tree-failed" }

\* the value undefined where an object is expected
Undefined == [undefined |-> TRUE]
\* an optional field (errorKind, errorMessage, dirtyTreeUsed) that is not set
Absent == "absent"
\* a boolean field that may be absent
BoolField(b) == IF b THEN "true" ELSE "false"

\* snapshot.conflictFiles.map(f => f.filepath)
FilePaths(snapshot) ==
  [i \in 1..Len(snapshot.conflictFiles) |-> snapshot.conflictFiles[i].filepath]

sortedFilePaths(snapshot) == SortStrings(FilePaths(snapshot))

conflictFileSetsEqualUnsorted(a, b) ==
  LET pathsA == FilePaths(a)
      pathsB == FilePaths(b)
  IN  /\ Len(pathsA) = Len(pathsB)
      /\ \A i \in 1..Len(pathsA) : pathsA[i] = pathsB[i]

conflictFileSetsEqual(a, b) ==
  LET pathsA == sortedFilePaths(a)
      pathsB == sortedFilePaths(b)
  IN  /\ Len(pathsA) = Len(pathsB)
      /\ \A i \in 1..Len(pathsA) : pathsA[i] = pathsB[i]

STATUSES_THAT_TRANSITION_TO_NEW_CONFLICT_WithChecking ==
  { "clean", "error", "paused", "checking" }

STATUSES_THAT_TRANSITION_TO_NEW_CONFLICT == { "clean", "error", "paused" }

\* the StateChange that update(snapshot) returns when the retained slot is prev
StateChangeOfGrewOnly(prev, snapshot) ==
  IF prev = Undefined
  THEN [changed |-> TRUE, isNewConflict |-> snapshot.status = "conflicts"]
  ELSE LET statusChanged == prev.status # snapshot.status
           fileSetChanged == ~conflictFileSetsEqual(prev, snapshot)
           transitionToConflicts ==
             /\ snapshot.status = "conflicts"
             /\ prev.status \in STATUSES_THAT_TRANSITION_TO_NEW_CONFLICT
           conflictSetGrew ==
             /\ snapshot.status = "conflicts"
             /\ prev.status = "conflicts"
             /\ Len(snapshot.conflictFiles) > Len(prev.conflictFiles)
       IN  [changed |-> statusChanged \/ fileSetChanged,
            isNewConflict |-> transitionToConflicts \/ conflictSetGrew]

StateChangeOfAlwaysChanged(prev, snapshot) ==
  [changed |-> TRUE,
   isNewConflict |-> snapshot.status = "conflicts"
                     /\ (prev = Undefined \/ prev.status # "checking")]

\* update(snapshot) were the errorKind part of the comparison
StateChangeOfWithErrorKind(prev, snapshot) ==
  IF prev = Undefined
  THEN [changed |-> TRUE, isNewConflict |-> snapshot.status = "conflicts"]
  ELSE LET statusChanged ==
             \/ prev.status # snapshot.status
             \/ prev.errorKind # snapshot.errorKind
           fileSetChanged == ~conflictFileSetsEqual(prev, snapshot)
           transitionToConflicts ==
             /\ snapshot.status = "conflicts"
             /\ prev.status \in STATUSES_THAT_TRANSITION_TO_NEW_CONFLICT
           conflictSetGrew ==
             /\ snapshot.status = "conflicts"
             /\ prev.status = "conflicts"
             /\ fileSetChanged
       IN  [changed |-> statusChanged \/ fileSetChanged,
            isNewConflict |-> transitionToConflicts \/ conflictSetGrew]

StateChangeOf(prev, snapshot) ==
  IF prev = Undefined
  THEN [changed |-> TRUE, isNewConflict |-> snapshot.status = "conflicts"]
  ELSE LET statusChanged == prev.status # snapshot.status
           fileSetChanged == ~conflictFileSetsEqual(prev, snapshot)
           changed == statusChanged \/ fileSetChanged
           transitionToConflicts ==
             /\ snapshot.status = "conflicts"
             /\ prev.status \in STATUSES_THAT_TRANSITION_TO_NEW_CONFLICT
           conflictSetGrew ==
             /\ snapshot.status = "conflicts"
             /\ prev.status = "conflicts"
             /\ fileSetChanged
       IN  [changed |-> changed,
            isNewConflict |-> transitionToConflicts \/ conflictSetGrew]

(***************************************************************************)
(* mergeTreeParser.ts: the two parsers.  A text is a sequence of           *)
(* characters; a ConflictFileEntry is a record; the Map of the source is   *)
(* the sequence of its entries in insertion order.                         *)
(***************************************************************************)
\* the width of an object identifier, and of a file mode
OidLen == 40
ModeLen == 6

EMPTY_OID == Rep("0", OidLen)

Digits == { "0", "1", "2", "3", "4", "5", "6", "7", "8", "9" }
HexDigits == Digits \cup { "a", "b", "c", "d", "e", "f" }
\* \s of a JavaScript regular expression, within the alphabet
WhiteSpace == { "\t", "\n", "\r", " " }
\* what . of a JavaScript regular expression does not match
LineTerminators == { "\n", "\r" }

\* stdout.split('\n')
RECURSIVE SplitLines(_)
SplitLines(s) ==
  IF \A i \in 1..Len(s) : s[i] # "\n" THEN << s >>
  ELSE LET k == CHOOSE i \in 1..Len(s) :
                  s[i] = "\n" /\ \A j \in 1..(i - 1) : s[j] # "\n"
       IN  << SubSeq(s, 1, k - 1) >> \o SplitLines(SubSeq(s, k + 1, Len(s)))

\* String.prototype.trim
RECURSIVE TrimStart(_)
TrimStart(s) ==
  IF s # << >> /\ Head(s) \in WhiteSpace THEN TrimStart(Tail(s)) ELSE s

RECURSIVE TrimEnd(_)
TrimEnd(s) ==
  IF s # << >> /\ s[Len(s)] \in WhiteSpace
  THEN TrimEnd(SubSeq(s, 1, Len(s) - 1)) ELSE s

Trim(s) == TrimEnd(TrimStart(s))

AllIn(s, from, to, set) == \A i \in from..to : s[i] \in set

\* MODERN_STAGE_RE.exec(line): Undefined, or the captured oid, stage and path
\*   /^(\d{6})\s([0-9a-f]{40})\s(\d)\t(.+)$/
MatchModernStage(line) ==
  LET oidAt == ModeLen + 2
      stageAt == oidAt + OidLen + 1
      pathAt == stageAt + 2
  IN  IF /\ Len(line) >= pathAt
         /\ AllIn(line, 1, ModeLen, Digits)
         /\ line[ModeLen + 1] \in WhiteSpace
         /\ AllIn(line, oidAt, oidAt + OidLen - 1, HexDigits)
         /\ line[stageAt - 1] \in WhiteSpace
         /\ line[stageAt] \in Digits
         /\ line[stageAt + 1] = "\t"
         /\ \A i \in pathAt..Len(line) : line[i] \notin LineTerminators
      THEN [oid |-> SubSeq(line, oidAt, oidAt + OidLen - 1),
            stage |-> line[stageAt],
            filepath |-> SubSeq(line, pathAt, Len(line))]
      ELSE Undefined

HasEntryNever(files, filepath) == FALSE

\* stageMap.get(filepath) is defined
HasEntry(files, filepath) == \E i \in 1..Len(files) : files[i].filepath = filepath

\* the entry of filepath after one stage line: created with three EMPTY_OIDs
\* when absent, then the field of the stage overwritten (the switch has no
\* default, so another stage leaves the entry as it is)
PutStage(files, filepath, field, oid) ==
  LET withEntry ==
        IF HasEntry(files, filepath) THEN files
        ELSE Append(files, [filepath |-> filepath, baseOid |-> EMPTY_OID,
                            oursOid |-> EMPTY_OID, theirsOid |-> EMPTY_OID])
  IN  [i \in 1..Len(withEntry) |->
         IF withEntry[i].filepath = filepath /\ field \in { "baseOid", "oursOid", "theirsOid" }
         THEN [withEntry[i] EXCEPT ![field] = oid]
         ELSE withEntry[i]]

ModernStageField(stage) ==
  CASE stage = "1" -> "baseOid"
    [] stage = "2" -> "oursOid"
    [] stage = "3" -> "theirsOid"
    [] OTHER -> "none"

\* one iteration of the loop over lines[1..] of parseModernMergeTree
ModernLine(acc, line) ==
  IF acc.inMessages
  THEN IF Len(line) > 0 THEN [acc EXCEPT !.messages = Append(@, line)] ELSE acc
  ELSE IF line = << >> THEN [acc EXCEPT !.inMessages = TRUE]
  ELSE LET match == MatchModernStage(line)
       IN  IF match = Undefined THEN [acc EXCEPT !.messages = Append(@, line)]
           ELSE [acc EXCEPT !.files =
                   PutStage(@, match.filepath, ModernStageField(match.stage), match.oid)]

RECURSIVE ModernLoop(_, _, _)
ModernLoop(acc, lines, i) ==
  IF i > Len(lines) THEN acc ELSE ModernLoop(ModernLine(acc, lines[i]), lines, i + 1)

parseModernMergeTreeAnyExit(stdout, exitCode) ==
  LET lines == SplitLines(stdout)
      toplevelTreeOid == Trim(lines[1])
      acc == ModernLoop([files |-> << >>, messages |-> << >>,
                         inMessages |-> FALSE], lines, 2)
  IN  [hasConflicts |-> Len(acc.files) > 0,
       toplevelTreeOid |-> toplevelTreeOid,
       conflictFiles |-> acc.files,
       messages |-> acc.messages]

parseModernMergeTree(stdout, exitCode) ==
  LET lines == SplitLines(stdout)
      toplevelTreeOid == Trim(lines[1])
  IN  IF exitCode = 0
      THEN [hasConflicts |-> FALSE, toplevelTreeOid |-> toplevelTreeOid,
            conflictFiles |-> << >>, messages |-> << >>]
      ELSE LET acc == ModernLoop([files |-> << >>, messages |-> << >>,
                                  inMessages |-> FALSE], lines, 2)
           IN  [hasConflicts |-> Len(acc.files) > 0,
                toplevelTreeOid |-> toplevelTreeOid,
                conflictFiles |-> acc.files,
                messages |-> acc.messages]

\* a literal word at position at of a line
HasWordAt(line, at, word) ==
  /\ Len(line) >= at + Len(word) - 1
  /\ SubSeq(line, at, at + Len(word) - 1) = word

ChangedInBoth == << "c", "h", "a", "n", "g", "e", "d", " ", "i", "n", " ", "b", "o", "t", "h" >>
AddedInBoth == << "a", "d", "d", "e", "d", " ", "i", "n", " ", "b", "o", "t", "h" >>
RemovedInBoth == << "r", "e", "m", "o", "v", "e", "d", " ", "i", "n", " ", "b", "o", "t", "h" >>

\* LEGACY_BLOCK_RE.test(line): /^(changed in both|added in both|removed in both)/
IsLegacyBlockHeader(line) ==
  \/ HasWordAt(line, 1, ChangedInBoth)
  \/ HasWordAt(line, 1, AddedInBoth)
  \/ HasWordAt(line, 1, RemovedInBoth)

\* the length of the longest run of white space of a line from position at
RECURSIVE SpaceRun(_, _)
SpaceRun(line, at) ==
  IF at <= Len(line) /\ line[at] \in WhiteSpace THEN 1 + SpaceRun(line, at + 1) ELSE 0

LegacySides == << << "b", "a", "s", "e" >>, << "o", "u", "r" >>, << "t", "h", "e", "i", "r" >> >>

\* LEGACY_CONTENT_RE.exec(line): Undefined, or the captured side, oid and path
\*   /^\s+(base|our|their)\s+(\d{6})\s+([0-9a-f]{40})\s+(.+)$/
\* Each \s+ but the last is followed by something that is not white space, so
\* it takes its whole run; the last gives back white space to (.+) only when
\* nothing else follows it.
MatchLegacyContent(line) ==
  LET lead == SpaceRun(line, 1)
      sideAt == lead + 1
      sides == { i \in 1..Len(LegacySides) : HasWordAt(line, sideAt, LegacySides[i]) }
      side == LegacySides[CHOOSE i \in sides : TRUE]
      gap1At == sideAt + Len(side)
      gap1 == SpaceRun(line, gap1At)
      modeAt == gap1At + gap1
      gap2At == modeAt + ModeLen
      gap2 == SpaceRun(line, gap2At)
      oidAt == gap2At + gap2
      gap3At == oidAt + OidLen
      gap3 == SpaceRun(line, gap3At)
      \* the lengths the last \s+ may take so that (.+)$ matches the rest
      takes == { k \in 1..gap3 :
                   /\ gap3At + k <= Len(line)
                   /\ \A i \in (gap3At + k)..Len(line) : line[i] \notin LineTerminators }
      take == CHOOSE k \in takes : \A j \in takes : j <= k
  IN  IF /\ lead >= 1
         /\ sides # { }
         /\ gap1 >= 1
         /\ Len(line) >= gap2At - 1
         /\ AllIn(line, modeAt, gap2At - 1, Digits)
         /\ gap2 >= 1
         /\ Len(line) >= gap3At - 1
         /\ AllIn(line, oidAt, gap3At - 1, HexDigits)
         /\ takes # { }
      THEN [side |-> side,
            oid |-> SubSeq(line, oidAt, gap3At - 1),
            filepath |-> SubSeq(line, gap3At + take, Len(line))]
      ELSE Undefined

LegacySideField(side) ==
  CASE side = LegacySides[1] -> "baseOid"
    [] side = LegacySides[2] -> "oursOid"
    [] side = LegacySides[3] -> "theirsOid"
    [] OTHER -> "none"

LegacyLineAnywhere(acc, line) ==
  IF IsLegacyBlockHeader(line) THEN [acc EXCEPT !.insideBlock = TRUE]
  ELSE LET match == MatchLegacyContent(line)
       IN  IF match = Undefined THEN acc
           ELSE [acc EXCEPT !.files =
                   PutStage(@, match.filepath, LegacySideField(match.side), match.oid)]

\* one iteration of the loop over the lines of parseLegacyMergeTree
LegacyLine(acc, line) ==
  IF IsLegacyBlockHeader(line) THEN [acc EXCEPT !.insideBlock = TRUE]
  ELSE IF ~acc.insideBlock THEN acc
  ELSE IF line = << >> \/ (Len(line) > 0 /\ line[1] \notin WhiteSpace)
  THEN [acc EXCEPT !.insideBlock = IsLegacyBlockHeader(line)]
  ELSE LET match == MatchLegacyContent(line)
       IN  IF match = Undefined THEN acc
           ELSE [acc EXCEPT !.files =
                   PutStage(@, match.filepath, LegacySideField(match.side), match.oid)]

RECURSIVE LegacyLoop(_, _, _)
LegacyLoop(acc, lines, i) ==
  IF i > Len(lines) THEN acc ELSE LegacyLoop(LegacyLine(acc, lines[i]), lines, i + 1)

\* parseLegacyMergeTree reporting conflicts whenever it saw a block header
parseLegacyMergeTreeByHeader(stdout) ==
  LET lines == SplitLines(stdout)
      acc == LegacyLoop([files |-> << >>, insideBlock |-> FALSE], lines, 1)
  IN  [hasConflicts |-> \E i \in 1..Len(lines) : IsLegacyBlockHeader(lines[i]),
       toplevelTreeOid |-> << >>,
       conflictFiles |-> acc.files,
       messages |-> << >>]

parseLegacyMergeTree(stdout) ==
  LET lines == SplitLines(stdout)
      acc == LegacyLoop([files |-> << >>, insideBlock |-> FALSE], lines, 1)
  IN  [hasConflicts |-> Len(acc.files) > 0,
       toplevelTreeOid |-> << >>,
       conflictFiles |-> acc.files,
       messages |-> << >>]

(***************************************************************************)
(* gitOps.ts: the version test.                                            *)
(***************************************************************************)
MIN_MAJOR == 2
MIN_MINOR == 38

DigitValue(c) == CharCode(c) - CharCode("0")

\* parseInt(digits, 10) of a run of decimal digits
RECURSIVE ParseInt(_)
ParseInt(digits) ==
  IF digits = << >> THEN 0
  ELSE 10 * ParseInt(SubSeq(digits, 1, Len(digits) - 1)) + DigitValue(digits[Len(digits)])

\* the length of the longest run of digits of a text from position at
RECURSIVE DigitRun(_, _)
DigitRun(text, at) ==
  IF at <= Len(text) /\ text[at] \in Digits THEN 1 + DigitRun(text, at + 1) ELSE 0

\* versionString.match(/(\d+)\.(\d+)/): the positions where a match starts
VersionMatches(text) ==
  { i \in 1..Len(text) :
      LET n == DigitRun(text, i)
      IN  /\ n >= 1
          /\ i + n <= Len(text)
          /\ text[i + n] = "."
          /\ DigitRun(text, i + n + 1) >= 1 }

supportsModernMergeTreeLastPair(versionString) ==
  LET starts == VersionMatches(versionString)
      at == CHOOSE i \in starts : \A j \in starts : i >= j
      n == DigitRun(versionString, at)
      major == ParseInt(SubSeq(versionString, at, at + n - 1))
      m == DigitRun(versionString, at + n + 1)
      minor == ParseInt(SubSeq(versionString, at + n + 1, at + n + m))
  IN  IF starts = { } THEN FALSE
      ELSE major > MIN_MAJOR \/ (major = MIN_MAJOR /\ minor >= MIN_MINOR)

supportsModernMergeTree(versionString) ==
  LET starts == VersionMatches(versionString)
      at == CHOOSE i \in starts : \A j \in starts : i <= j
      n == DigitRun(versionString, at)
      major == ParseInt(SubSeq(versionString, at, at + n - 1))
      m == DigitRun(versionString, at + n + 1)
      minor == ParseInt(SubSeq(versionString, at + n + 1, at + n + m))
  IN  IF starts = { } THEN FALSE
      ELSE major > MIN_MAJOR \/ (major = MIN_MAJOR /\ minor >= MIN_MINOR)

GitVersionPrefix == << "g", "i", "t", " ", "v", "e", "r", "s", "i", "o", "n" >>

\* result.stdout.trim().replace(/^git version\s*/, '')
StripVersionPrefix(stdout) ==
  LET text == Trim(stdout)
  IN  IF HasWordAt(text, 1, GitVersionPrefix)
      THEN SubSeq(text, Len(GitVersionPrefix) + 1
                          + SpaceRun(text, Len(GitVersionPrefix) + 1), Len(text))
      ELSE text

(***************************************************************************)
(* config.ts: the configuration as the host stores it and as getConfig     *)
(* reads it.                                                               *)
(***************************************************************************)
MIN_POLL_SECONDS == 10
DEFAULT_POLL_SECONDS == 60
MS_PER_SECOND == 1000

Max(a, b) == IF a >= b THEN a ELSE b

\* pollIntervalMs of getConfig()
pollIntervalMs(cfg) == Max(cfg.pollIntervalSeconds, MIN_POLL_SECONDS) * MS_PER_SECOND

DefaultConfig ==
  [enabled |-> TRUE, pollIntervalSeconds |-> DEFAULT_POLL_SECONDS, autoPull |-> FALSE]

(***************************************************************************)
(* gitOps.ts: exec, and what the git process may answer to each operation. *)
(***************************************************************************)
\* what a child process may end with: an exit code and its output, or the
\* wrapper's timeout or output limit ending it
ProcessExit(code, stdout) == [kind |-> "exit", code |-> code, stdout |-> stdout]
ProcessTimeout == [kind |-> "timeout", code |-> -1, stdout |-> << >>]
ProcessMaxBuffer == [kind |-> "maxBuffer", code |-> -1, stdout |-> << >>]

\* exec threw
Thrown == [thrown |-> TRUE]

ExecIgnoringAllowed(outcome, allowedExitCodes) ==
  IF outcome.kind = "exit"
  THEN [stdout |-> outcome.stdout, exitCode |-> outcome.code]
  ELSE Thrown

\* exec(args, cwd, allowedExitCodes): the GitExecResult, or Thrown
Exec(outcome, allowedExitCodes) ==
  IF outcome.kind = "exit" /\ outcome.code = 0
  THEN [stdout |-> outcome.stdout, exitCode |-> 0]
  ELSE IF outcome.kind = "exit" /\ outcome.code \in allowedExitCodes
  THEN [stdout |-> outcome.stdout, exitCode |-> outcome.code]
  ELSE Thrown

\* the allowedExitCodes each operation of gitOps.ts passes to exec
AllowedExitCodes(op) ==
  CASE op = "mergeTreeModern" -> { 0, 1 }
    [] op = "upstream" -> { 0, 128 }
    [] op = "pullRebase" -> { 0, 1, 128 }
    [] OTHER -> { 0 }

NL == << "\n" >>

\* the file paths the repository may hold
PathNames == << << "a" >>, << "b" >>, << "c" >> >>
Paths == { PathNames[i] : i \in 1..NPaths }

\* lists of distinct paths
PathLists ==
  { ps \in UNION { [1..n -> Paths] : n \in 0..NPaths } :
      \A i, j \in 1..Len(ps) : i # j => ps[i] # ps[j] }

\* object identifiers as git prints them
HeadCommit == << "c", "1" >>
PulledCommit == << "c", "2" >>
Commits == { HeadCommit, PulledCommit }
RemoteCommit == << "f", "1" >>
StashCommit == << "5", "1" >>
Trees == { << "e", "1" >>, << "e", "2" >> }
BaseCommit == << "b", "0" >>

FileMode == << "1", "0", "0", "6", "4", "4" >>
OidOf(c) == Rep(c, OidLen)

RECURSIVE JoinLines(_)
JoinLines(lines) ==
  IF lines = << >> THEN << >>
  ELSE IF Len(lines) = 1 THEN lines[1]
  ELSE lines[1] \o NL \o JoinLines(Tail(lines))

RECURSIVE Flatten(_)
Flatten(seqs) == IF seqs = << >> THEN << >> ELSE Head(seqs) \o Flatten(Tail(seqs))

\* a stage line of git merge-tree --write-tree
ModernStageLine(oid, stage, path) ==
  FileMode \o << " " >> \o oid \o << " " >> \o << stage >> \o << "\t" >> \o path

TreeLine == << "T" >>
InfoLine == << "i", "n", "f", "o" >>

\* stdout of git merge-tree --write-tree when the paths of ps conflict
ModernText(ps) ==
  IF ps = << >> THEN TreeLine \o NL
  ELSE JoinLines(<< TreeLine >>
         \o Flatten([i \in 1..Len(ps) |->
              << ModernStageLine(OidOf("a"), "1", ps[i]),
                 ModernStageLine(OidOf("b"), "2", ps[i]),
                 ModernStageLine(OidOf("c"), "3", ps[i]) >>])
         \o << << >>, InfoLine, << >> >>)

LegacyContentLine(side, oid, path) ==
  << " ", " " >> \o side \o << " " >> \o FileMode \o << " " >> \o oid \o << " " >> \o path

\* stdout of the three-argument git merge-tree when the paths of ps conflict
LegacyText(ps) ==
  JoinLines(Flatten([i \in 1..Len(ps) |->
              << ChangedInBoth,
                 LegacyContentLine(LegacySides[1], OidOf("a"), ps[i]),
                 LegacyContentLine(LegacySides[2], OidOf("b"), ps[i]),
                 LegacyContentLine(LegacySides[3], OidOf("c"), ps[i]) >>])
            \o << << >> >>)

VersionTexts ==
  { GitVersionPrefix \o << " ", "2", ".", "3", "8", ".", "0" >> \o NL,
    GitVersionPrefix \o << " ", "2", ".", "3", "7", ".", "5" >> \o NL }

Failures == { ProcessTimeout, ProcessMaxBuffer, ProcessExit(2, << >>) }

\* what the process of each operation may end with
ProcessOutcomes(op) ==
  Failures \cup
  CASE op = "version" -> { ProcessExit(0, v) : v \in VersionTexts }
    [] op = "fetch" -> { ProcessExit(0, << >>), ProcessExit(1, << >>) }
    [] op = "revParseHead" ->
         { ProcessExit(0, HeadCommit \o NL), ProcessExit(128, << >>) }
    [] op = "revParseNewHead" ->
         { ProcessExit(0, PulledCommit \o NL), ProcessExit(128, << >>) }
    [] op = "revParseRemote" ->
         { ProcessExit(0, RemoteCommit \o NL), ProcessExit(128, << >>) }
    [] op = "upstream" ->
         { ProcessExit(0, c \o NL) : c \in Commits } \cup { ProcessExit(128, << >>) }
    [] op = "pullRebase" ->
         { ProcessExit(0, << >>), ProcessExit(1, << >>), ProcessExit(128, << >>) }
    [] op = "revListCount" ->
         { ProcessExit(0, << "0" >> \o NL), ProcessExit(0, << "1" >> \o NL),
           ProcessExit(0, << >>) }
    [] op = "statusTracked" ->
         { ProcessExit(0, << >>), ProcessExit(0, << " ", "M", " ", "a" >> \o NL) }
    [] op = "stashCreate" ->
         { ProcessExit(0, StashCommit \o NL), ProcessExit(0, << >>) }
    [] op = "revParseTree" ->
         { ProcessExit(0, t \o NL) : t \in Trees } \cup { ProcessExit(128, << >>) }
    [] op = "mergeTreeModern" ->
         { ProcessExit(IF ps = << >> THEN 0 ELSE 1, ModernText(ps)) : ps \in PathLists }
    [] op = "mergeBase" -> { ProcessExit(0, BaseCommit \o NL), ProcessExit(1, << >>) }
    [] op = "mergeTreeLegacy" -> { ProcessExit(0, LegacyText(ps)) : ps \in PathLists }

Ops ==
  { "version", "fetch", "revParseHead", "revParseRemote", "upstream", "pullRebase",
    "revParseNewHead", "revListCount", "statusTracked", "stashCreate",
    "revParseTree", "mergeTreeModern", "mergeBase", "mergeTreeLegacy" }

\* the GitExecResults, and Thrown, each operation may hand to its caller
ExecResultsOf ==
  [op \in Ops |-> { Exec(o, AllowedExitCodes(op)) : o \in ProcessOutcomes(op) }]

ExecResults(op) == ExecResultsOf[op]

\* the parsers on what the merge-tree operations may hand over, computed once
ParsedModern ==
  [r \in ExecResultsOf["mergeTreeModern"] \ { Thrown } |->
     parseModernMergeTree(r.stdout, r.exitCode)]

ParsedLegacy ==
  [r \in ExecResultsOf["mergeTreeLegacy"] \ { Thrown } |->
     parseLegacyMergeTree(r.stdout)]

(***************************************************************************)
(* The state.                                                              *)
(***************************************************************************)
VARIABLES
  previous,          \* ConflictState.previous: the retained snapshot, or Undefined
  timer,             \* ConflictDetector.timer: Undefined, or the handle that
                     \* setInterval last returned to restartTimer
  intervals,         \* the host's intervals that are set and not cleared
  isRunning,         \* ConflictDetector.isRunning
  isPaused,          \* ConflictDetector.isPaused
  useModern,         \* ConflictDetector.useModern
  resolvedFiles,     \* ConflictDetector.resolvedFiles
  lastRawFilepaths,  \* ConflictDetector.lastRawFilepaths
  lastHeadTree,      \* ConflictDetector.lastHeadTree
  config,            \* the conflictWatcher settings of the host
  disposed,          \* dispose() has run
  startPc,           \* where start() is: "version", "checkNow" or "done"
  pc,                \* the external call the checkNow in flight awaits, or "idle"
  cyc,               \* the locals of the checkNow in flight
  out                \* what the last step that did anything did, in order:
                     \* the events it fired and the calls it issued

differVars == << previous >>
detectorVars ==
  << timer, intervals, isRunning, isPaused, useModern, resolvedFiles,
     lastRawFilepaths, lastHeadTree >>
cycleVars == << pc, cyc >>
vars ==
  << previous, timer, intervals, isRunning, isPaused, useModern, resolvedFiles,
     lastRawFilepaths, lastHeadTree, config, disposed, startPc, pc, cyc, out >>

\* Date.now() in the detector: the clock is not modelled, no code reads a
\* timestamp
Times == { 0 }

Configs ==
  [enabled : BOOLEAN, pollIntervalSeconds : { 5, DEFAULT_POLL_SECONDS },
   autoPull : BOOLEAN]

\* the locals of checkNow before any is assigned
NoLocals ==
  [autoPull |-> FALSE, head |-> << >>, remote |-> << >>, oldHead |-> << >>,
   dirtyTreeUsed |-> FALSE, headTree |-> << >>, base |-> << >>]

(***************************************************************************)
(* What a step leaves in out.                                              *)
(***************************************************************************)
\* the awaited call op settled with result r: whether it threw, its exit code,
\* and whether its output trims to the empty string
Settled(op, r) ==
  [kind |-> "settled", op |-> op, threw |-> r = Thrown,
   exitCode |-> IF r = Thrown THEN -1 ELSE r.exitCode,
   blank |-> IF r = Thrown THEN TRUE ELSE Trim(r.stdout) = << >>]

\* checkNow() was entered
CheckNowEntered == [kind |-> "checkNow"]

\* the host ran the callback of setInterval
TimerFired == [kind |-> "timer"]

\* the host's configuration listener called restartTimer()
RestartTimerEntered == [kind |-> "restartTimer"]

\* togglePause() was entered
TogglePauseEntered == [kind |-> "togglePause"]

\* markResolved(filepath) was entered
MarkResolvedEntered(filepath) == [kind |-> "markResolved", filepath |-> filepath]

\* an external call issued
CallOut(op, args) == [kind |-> "call", op |-> op, args |-> args]

\* _onConflictsUpdated.fire({ snapshot, change }) by the method origin
SnapshotEvent(origin, snapshot, change) ==
  [kind |-> "conflictsUpdated", origin |-> origin, snapshot |-> snapshot,
   change |-> change]

\* _onAutoPulled.fire({ commitCount, newHead })
AutoPulledEvent(commitCount, newHead) ==
  [kind |-> "autoPulled", commitCount |-> commitCount, newHead |-> newHead]

\* vscode.window.showInformationMessage about commitCount pulled commits
InformationMessage(commitCount) ==
  [kind |-> "informationMessage", commitCount |-> commitCount]

\* the listener activate() puts on onAutoPulled
onAutoPulledListener(commitCount) ==
  IF commitCount = 0 THEN << >> ELSE << InformationMessage(commitCount) >>

\* ConflictState.update(snapshot) on a differ used on its own
UpdateRecord(prior, snapshot, change) ==
  [kind |-> "update", prior |-> prior, snapshot |-> snapshot, change |-> change]

\* ConflictState.reset() on a differ used on its own
ResetRecord == [kind |-> "reset"]

(***************************************************************************)
(* Snapshots as the detector builds them.                                  *)
(***************************************************************************)
MakeSnapshot(t, status, errorKind, errorMessage, files, tree, dirty) ==
  [timestamp |-> t, status |-> status, errorKind |-> errorKind,
   errorMessage |-> errorMessage, conflictFiles |-> files,
   toplevelTreeOid |-> tree, dirtyTreeUsed |-> dirty]

CheckingSnapshot(t) == MakeSnapshot(t, "checking", Absent, Absent, << >>, << >>, Absent)

PausedSnapshot(t) == MakeSnapshot(t, "paused", Absent, Absent, << >>, << >>, Absent)

ErrorSnapshotWithFiles(t, errorKind, message) ==
  MakeSnapshot(t, "error", errorKind, message,
               IF previous = Undefined THEN << >> ELSE previous.conflictFiles,
               << >>, Absent)

\* the snapshot emitError builds
ErrorSnapshot(t, errorKind, message) ==
  MakeSnapshot(t, "error", errorKind, message, << >>, << >>, Absent)

StatusOfFiles(files) == IF Len(files) > 0 THEN "conflicts" ELSE "clean"

UnresolvedNone(files, resolved) == files

\* conflictFiles.filter(f => !this.resolvedFiles.has(f.filepath))
Unresolved(files, resolved) == SelectSeq(files, LAMBDA f : f.filepath \notin resolved)

\* the change the detector attaches to a checking and to a paused snapshot
NoDifferChange == [changed |-> TRUE, isNewConflict |-> FALSE]

(***************************************************************************)
(* ConflictState: update and reset as the state changes they make.         *)
(***************************************************************************)
RetainedAfterUpdateIfChanged(prev, snapshot) ==
  IF StateChangeOf(prev, snapshot).changed THEN snapshot ELSE prev

\* this.previous after update(snapshot)
RetainedAfterUpdate(prev, snapshot) == snapshot

RetainedAfterResetKept == previous

\* this.previous after reset()
RetainedAfterReset == Undefined

Init ==
  /\ previous = Undefined
  /\ timer = Undefined
  /\ intervals = { }
  /\ isRunning = FALSE
  /\ isPaused = FALSE
  /\ useModern = TRUE
  /\ resolvedFiles = { }
  /\ lastRawFilepaths = << >>
  /\ lastHeadTree = << >>
  /\ config = DefaultConfig
  /\ disposed = FALSE
  /\ startPc = "version"
  /\ pc = "idle"
  /\ cyc = NoLocals
  /\ out = << CallOut("version", << >>) >>

(***************************************************************************)
(* ConflictDetector: restartTimer, checkNow up to its first await, and     *)
(* the end of a cycle.                                                     *)
(***************************************************************************)
\* the host's clearInterval(handle) on its intervals ivs
ClearInterval(handle, ivs) == { i \in ivs : i.handle # handle }

\* the handle setInterval returns: one no interval of ivs has (the handle of
\* a cleared interval that nothing refers to any more may be handed out again)
FreshHandle(ivs) ==
  LET ids == { i.handle.id : i \in ivs }
  IN  [id |-> CHOOSE n \in 1..(Cardinality(ivs) + 1) :
                 n \notin ids /\ \A m \in 1..(n - 1) : m \in ids]

\* the largest delay the host's timers take; setInterval replaces a longer
\* delay by 1
TIMEOUT_MAX == 2147483647

\* the period in ms of the interval setInterval(callback, config.pollIntervalMs)
\* starts under cfg: pollIntervalMs, or 1 when that exceeds TIMEOUT_MAX (the
\* product is compared through its quotient)
SetIntervalPeriod(cfg) ==
  IF Max(cfg.pollIntervalSeconds, MIN_POLL_SECONDS) > TIMEOUT_MAX \div MS_PER_SECOND
  THEN 1
  ELSE pollIntervalMs(cfg)

ClearedForRestartSkipped == intervals

\* restartTimer(): if (this.timer) clearInterval(this.timer)
ClearedForRestart ==
  IF timer # Undefined THEN ClearInterval(timer, intervals) ELSE intervals

\* the host's intervals after restartTimer() under cfg
IntervalsAfterRestart(cfg) ==
  IF cfg.enabled
  THEN ClearedForRestart \cup
         { [handle |-> FreshHandle(ClearedForRestart),
            intervalMs |-> SetIntervalPeriod(cfg)] }
  ELSE ClearedForRestart

\* this.timer after restartTimer() under cfg: clearInterval stops the
\* interval but leaves this.timer holding its handle
TimerAfterRestart(cfg) ==
  IF cfg.enabled THEN FreshHandle(ClearedForRestart) ELSE timer

BeginCycleUnguarded(t, before) ==
  /\ isRunning' = TRUE
  /\ pc' = "fetch"
  /\ cyc' = [NoLocals EXCEPT !.autoPull = config.autoPull]
  /\ out' = before \o << CheckNowEntered,
                         SnapshotEvent("checkNow", CheckingSnapshot(t), NoDifferChange),
                         CallOut("fetch", << >>) >>

\* checkNow() until it first awaits: the guard, the checking snapshot, the
\* fetch; before is what the caller did first
BeginCycle(t, before) ==
  IF isRunning
  THEN /\ out' = before \o << CheckNowEntered >>
       /\ UNCHANGED << isRunning, pc, cyc >>
  ELSE /\ isRunning' = TRUE
       /\ pc' = "fetch"
       /\ cyc' = [NoLocals EXCEPT !.autoPull = config.autoPull]
       /\ out' = before \o << CheckNowEntered,
                              SnapshotEvent("checkNow", CheckingSnapshot(t), NoDifferChange),
                              CallOut("fetch", << >>) >>

EndCycleKeepsRunning ==
  /\ isRunning' = isRunning
  /\ pc' = "idle"
  /\ cyc' = NoLocals
  /\ IF startPc = "checkNow"
     THEN /\ startPc' = "done"
          /\ timer' = TimerAfterRestart(config)
          /\ intervals' = IntervalsAfterRestart(config)
     ELSE UNCHANGED << startPc, timer, intervals >>

\* the finally of checkNow, and start() going on to restartTimer() when it
\* awaited this cycle
EndCycle ==
  /\ isRunning' = FALSE
  /\ pc' = "idle"
  /\ cyc' = NoLocals
  /\ IF startPc = "checkNow"
     THEN /\ startPc' = "done"
          /\ timer' = TimerAfterRestart(config)
          /\ intervals' = IntervalsAfterRestart(config)
     ELSE UNCHANGED << startPc, timer, intervals >>

\* emitError followed by a return that leaves the guard set
FailCycleKeepsGuard(r, errorKind, message) ==
  \E t \in Times :
    LET snapshot == ErrorSnapshot(t, errorKind, message)
    IN  /\ previous' = RetainedAfterUpdate(previous, snapshot)
        /\ out' = << Settled(pc, r),
                     SnapshotEvent("checkNow", snapshot, StateChangeOf(previous, snapshot)) >>
        /\ isRunning' = isRunning
        /\ pc' = "idle"
        /\ cyc' = NoLocals
        /\ IF startPc = "checkNow"
           THEN /\ startPc' = "done"
                /\ timer' = TimerAfterRestart(config)
                /\ intervals' = IntervalsAfterRestart(config)
           ELSE UNCHANGED << startPc, timer, intervals >>
        /\ UNCHANGED << isPaused, useModern, resolvedFiles, lastRawFilepaths,
                        lastHeadTree, config, disposed >>

FailCycleNoDiffer(r, errorKind, message) ==
  \E t \in Times :
    LET snapshot == ErrorSnapshot(t, errorKind, message)
    IN  /\ previous' = snapshot
        /\ out' = << Settled(pc, r), SnapshotEvent("checkNow", snapshot, NoDifferChange) >>
        /\ EndCycle
        /\ UNCHANGED << isPaused, useModern, resolvedFiles, lastRawFilepaths,
                        lastHeadTree, config, disposed >>

\* emitError(errorKind, message) followed by the return out of checkNow
FailCycle(r, errorKind, message) ==
  \E t \in Times :
    LET snapshot == ErrorSnapshot(t, errorKind, message)
    IN  /\ previous' = RetainedAfterUpdate(previous, snapshot)
        /\ out' = << Settled(pc, r),
                     SnapshotEvent("checkNow", snapshot, StateChangeOf(previous, snapshot)) >>
        /\ EndCycle
        /\ UNCHANGED << isPaused, useModern, resolvedFiles, lastRawFilepaths,
                        lastHeadTree, config, disposed >>

\* the cycle goes on to await the call op, its locals now locals, having
\* fired events
Await(r, op, args, locals, events) ==
  /\ pc' = op
  /\ cyc' = locals
  /\ out' = << Settled(pc, r) >> \o events \o << CallOut(op, args) >>
  /\ UNCHANGED << previous, timer, intervals, isRunning, isPaused, useModern, resolvedFiles,
                  lastRawFilepaths, lastHeadTree, config, disposed, startPc >>

(***************************************************************************)
(* ConflictDetector: the operations the host invokes.                      *)
(***************************************************************************)
\* the conflictWatcher.checkNow command, were checkNow to return while paused
CheckNowCommandUnlessPaused ==
  /\ ~disposed
  /\ IF isPaused
     THEN /\ out' = << CheckNowEntered >>
          /\ UNCHANGED << isRunning, pc, cyc >>
     ELSE \E t \in Times : BeginCycle(t, << >>)
  /\ UNCHANGED << previous, timer, intervals, isPaused, useModern, resolvedFiles,
                  lastRawFilepaths, lastHeadTree, config, disposed, startPc >>

\* the conflictWatcher.checkNow command
CheckNowCommand ==
  /\ ~disposed
  /\ \E t \in Times : BeginCycle(t, << >>)
  /\ UNCHANGED << previous, timer, intervals, isPaused, useModern, resolvedFiles,
                  lastRawFilepaths, lastHeadTree, config, disposed, startPc >>

TimerTickIgnoringPause ==
  /\ intervals # { }
  /\ \E t \in Times : BeginCycle(t, << TimerFired >>)
  /\ UNCHANGED << previous, timer, intervals, isPaused, useModern, resolvedFiles,
                  lastRawFilepaths, lastHeadTree, config, disposed, startPc >>

\* the callback of setInterval
TimerTick ==
  /\ intervals # { }
  /\ IF ~isPaused
     THEN \E t \in Times : BeginCycle(t, << TimerFired >>)
     ELSE /\ out' = << TimerFired >>
          /\ UNCHANGED << isRunning, pc, cyc >>
  /\ UNCHANGED << previous, timer, intervals, isPaused, useModern, resolvedFiles,
                  lastRawFilepaths, lastHeadTree, config, disposed, startPc >>

TogglePauseWithoutCheck ==
  /\ ~disposed
  /\ isPaused' = ~isPaused
  /\ IF ~isPaused
     THEN \E t \in Times :
            out' = << TogglePauseEntered,
                      SnapshotEvent("togglePause", PausedSnapshot(t), NoDifferChange) >>
     ELSE out' = << TogglePauseEntered >>
  /\ UNCHANGED << previous, timer, intervals, useModern, resolvedFiles, lastRawFilepaths,
                  lastHeadTree, config, disposed, startPc, isRunning, pc, cyc >>

TogglePauseCancelling ==
  /\ ~disposed
  /\ isPaused' = ~isPaused
  /\ IF ~isPaused
     THEN /\ \E t \in Times :
               out' = << TogglePauseEntered,
                         SnapshotEvent("togglePause", PausedSnapshot(t), NoDifferChange) >>
          /\ isRunning' = FALSE
          /\ pc' = "idle"
          /\ cyc' = NoLocals
     ELSE \E t \in Times : BeginCycle(t, << TogglePauseEntered >>)
  /\ UNCHANGED << previous, timer, intervals, useModern, resolvedFiles, lastRawFilepaths,
                  lastHeadTree, config, disposed, startPc >>

\* togglePause() with the paused snapshot passed through the differ
TogglePauseThroughDiffer ==
  /\ ~disposed
  /\ isPaused' = ~isPaused
  /\ IF ~isPaused
     THEN /\ \E t \in Times :
               /\ out' = << TogglePauseEntered,
                            SnapshotEvent("togglePause", PausedSnapshot(t),
                                          StateChangeOf(previous, PausedSnapshot(t))) >>
               /\ previous' = RetainedAfterUpdate(previous, PausedSnapshot(t))
          /\ UNCHANGED << isRunning, pc, cyc >>
     ELSE /\ \E t \in Times : BeginCycle(t, << TogglePauseEntered >>)
          /\ UNCHANGED previous
  /\ UNCHANGED << timer, intervals, useModern, resolvedFiles, lastRawFilepaths,
                  lastHeadTree, config, disposed, startPc >>

\* togglePause()
TogglePause ==
  /\ ~disposed
  /\ isPaused' = ~isPaused
  /\ IF ~isPaused
     THEN /\ \E t \in Times :
               out' = << TogglePauseEntered,
                         SnapshotEvent("togglePause", PausedSnapshot(t), NoDifferChange) >>
          /\ UNCHANGED << isRunning, pc, cyc >>
     ELSE \E t \in Times : BeginCycle(t, << TogglePauseEntered >>)
  /\ UNCHANGED << previous, timer, intervals, useModern, resolvedFiles, lastRawFilepaths,
                  lastHeadTree, config, disposed, startPc >>

\* markResolved(filepath) filtering before the path is added
MarkResolvedFilterBeforeAdd(filepath) ==
  /\ resolvedFiles' = resolvedFiles \cup { filepath }
  /\ IF previous # Undefined /\ previous.status = "conflicts"
     THEN \E t \in Times :
            LET effectiveFiles == Unresolved(previous.conflictFiles, resolvedFiles)
                snapshot == [previous EXCEPT !.timestamp = t,
                                             !.conflictFiles = effectiveFiles,
                                             !.status = StatusOfFiles(effectiveFiles)]
            IN  /\ previous' = RetainedAfterUpdate(previous, snapshot)
                /\ out' = << MarkResolvedEntered(filepath),
                             SnapshotEvent("markResolved", snapshot,
                                           StateChangeOf(previous, snapshot)) >>
     ELSE /\ out' = << MarkResolvedEntered(filepath) >>
          /\ UNCHANGED previous
  /\ UNCHANGED << timer, intervals, isRunning, isPaused, useModern, lastRawFilepaths,
                  lastHeadTree, config, disposed, startPc, pc, cyc >>

\* markResolved(filepath) publishing with the change of the transient
\* snapshots instead of the differ's
MarkResolvedFixedChange(filepath) ==
  /\ resolvedFiles' = resolvedFiles \cup { filepath }
  /\ IF previous # Undefined /\ previous.status = "conflicts"
     THEN \E t \in Times :
            LET effectiveFiles == Unresolved(previous.conflictFiles, resolvedFiles')
                snapshot == [previous EXCEPT !.timestamp = t,
                                             !.conflictFiles = effectiveFiles,
                                             !.status = StatusOfFiles(effectiveFiles)]
            IN  /\ previous' = RetainedAfterUpdate(previous, snapshot)
                /\ out' = << MarkResolvedEntered(filepath),
                             SnapshotEvent("markResolved", snapshot, NoDifferChange) >>
     ELSE /\ out' = << MarkResolvedEntered(filepath) >>
          /\ UNCHANGED previous
  /\ UNCHANGED << timer, intervals, isRunning, isPaused, useModern, lastRawFilepaths,
                  lastHeadTree, config, disposed, startPc, pc, cyc >>

\* markResolved(filepath)
MarkResolved(filepath) ==
  /\ resolvedFiles' = resolvedFiles \cup { filepath }
  /\ IF previous # Undefined /\ previous.status = "conflicts"
     THEN \E t \in Times :
            LET effectiveFiles == Unresolved(previous.conflictFiles, resolvedFiles')
                snapshot == [previous EXCEPT !.timestamp = t,
                                             !.conflictFiles = effectiveFiles,
                                             !.status = StatusOfFiles(effectiveFiles)]
            IN  /\ previous' = RetainedAfterUpdate(previous, snapshot)
                /\ out' = << MarkResolvedEntered(filepath),
                             SnapshotEvent("markResolved", snapshot,
                                           StateChangeOf(previous, snapshot)) >>
     ELSE /\ out' = << MarkResolvedEntered(filepath) >>
          /\ UNCHANGED previous
  /\ UNCHANGED << timer, intervals, isRunning, isPaused, useModern, lastRawFilepaths,
                  lastHeadTree, config, disposed, startPc, pc, cyc >>

\* the settings change and the host calls back: restartTimer()
ConfigChange(cfg) ==
  /\ ~disposed
  /\ config' = cfg
  /\ timer' = TimerAfterRestart(cfg)
  /\ intervals' = IntervalsAfterRestart(cfg)
  /\ out' = << RestartTimerEntered >>
  /\ UNCHANGED << previous, isRunning, isPaused, useModern, resolvedFiles,
                  lastRawFilepaths, lastHeadTree, disposed, startPc, pc, cyc >>

\* dispose()
Dispose ==
  /\ ~disposed
  /\ disposed' = TRUE
  /\ intervals' = IF timer # Undefined THEN ClearInterval(timer, intervals)
                  ELSE intervals
  /\ UNCHANGED timer
  /\ out' = << >>
  /\ UNCHANGED << previous, isRunning, isPaused, useModern, resolvedFiles,
                  lastRawFilepaths, lastHeadTree, config, startPc, pc, cyc >>

\* start() once gitVersion() has settled: useModern, then checkNow(); when
\* that returns at once (a cycle is in flight) restartTimer() follows at once
StartVersionDone(r) ==
  /\ startPc = "version"
  /\ useModern' = IF r = Thrown THEN FALSE
                  ELSE supportsModernMergeTree(StripVersionPrefix(r.stdout))
  /\ \E t \in Times : BeginCycle(t, << Settled("version", r) >>)
  /\ IF isRunning
     THEN /\ startPc' = "done"
          /\ timer' = TimerAfterRestart(config)
          /\ intervals' = IntervalsAfterRestart(config)
     ELSE /\ startPc' = "checkNow"
          /\ UNCHANGED << timer, intervals >>
  /\ UNCHANGED << previous, isPaused, resolvedFiles, lastRawFilepaths,
                  lastHeadTree, config, disposed >>

(***************************************************************************)
(* ConflictDetector.checkNow: one action per await, taken when the         *)
(* awaited call settles with result r.                                     *)
(***************************************************************************)
\* Step 3.9 begins: gitStatusTracked
AwaitStatusTracked(r, locals, events) ==
  Await(r, "statusTracked", << >>, locals, events)

\* the tree of head is asked for: let headTree = head; gitRevParse(head^{tree})
AwaitRevParseTree(r, locals) ==
  Await(r, "revParseTree", << locals.head >>,
        [locals EXCEPT !.headTree = locals.head], << >>)

FetchDoneSwallowed(r) ==
  /\ pc = "fetch"
  /\ Await(r, "revParseHead", << >>, cyc, << >>)

\* Step 1: gitFetch
FetchDone(r) ==
  /\ pc = "fetch"
  /\ IF r = Thrown
     THEN FailCycle(r, "fetch-failed", "Failed to fetch from origin")
     ELSE Await(r, "revParseHead", << >>, cyc, << >>)

RevParseHeadDoneGoingOn(r) ==
  /\ pc = "revParseHead"
  /\ Await(r, "revParseRemote", << >>,
           [cyc EXCEPT !.head = IF r = Thrown THEN << >> ELSE Trim(r.stdout)], << >>)

\* Step 2: gitRevParse(HEAD)
RevParseHeadDone(r) ==
  /\ pc = "revParseHead"
  /\ IF r = Thrown
     THEN FailCycle(r, "no-head", "Failed to resolve HEAD")
     ELSE Await(r, "revParseRemote", << >>, [cyc EXCEPT !.head = Trim(r.stdout)], << >>)

\* Step 3: gitRevParse(remoteRef), then Step 3.5 when config.autoPull
RevParseRemoteDone(r) ==
  /\ pc = "revParseRemote"
  /\ IF r = Thrown
     THEN FailCycle(r, "branch-missing", "Remote branch origin/main not found")
     ELSE LET locals == [cyc EXCEPT !.remote = Trim(r.stdout)]
          IN  IF cyc.autoPull
              THEN Await(r, "upstream", << >>, locals, << >>)
              ELSE AwaitStatusTracked(r, locals, << >>)

UpstreamDoneAdoptingUpstream(r) ==
  /\ pc = "upstream"
  /\ IF r = Thrown THEN AwaitStatusTracked(r, cyc, << >>)
     ELSE IF r.exitCode # 0 THEN AwaitStatusTracked(r, cyc, << >>)
     ELSE IF cyc.head = Trim(r.stdout) THEN AwaitStatusTracked(r, cyc, << >>)
     ELSE Await(r, "pullRebase", << >>,
                [cyc EXCEPT !.oldHead = cyc.head, !.head = Trim(r.stdout)], << >>)

\* Step 3.5: gitUpstream
UpstreamDone(r) ==
  /\ pc = "upstream"
  /\ IF r = Thrown THEN AwaitStatusTracked(r, cyc, << >>)
     ELSE IF r.exitCode # 0 THEN AwaitStatusTracked(r, cyc, << >>)
     ELSE IF cyc.head = Trim(r.stdout) THEN AwaitStatusTracked(r, cyc, << >>)
     ELSE Await(r, "pullRebase", << >>, [cyc EXCEPT !.oldHead = cyc.head], << >>)

PullRebaseDoneUncaught(r) ==
  /\ pc = "pullRebase"
  /\ IF r = Thrown THEN FailCycle(r, "merge-tree-failed", "merge-tree failed")
     ELSE IF r.exitCode = 0 THEN Await(r, "revParseNewHead", << >>, cyc, << >>)
     ELSE AwaitStatusTracked(r, cyc, << >>)

\* Step 3.5: gitPullRebase
PullRebaseDone(r) ==
  /\ pc = "pullRebase"
  /\ IF r = Thrown THEN AwaitStatusTracked(r, cyc, << >>)
     ELSE IF r.exitCode = 0 THEN Await(r, "revParseNewHead", << >>, cyc, << >>)
     ELSE AwaitStatusTracked(r, cyc, << >>)

\* Step 3.5: gitRevParse(HEAD) after the rebase
RevParseNewHeadDone(r) ==
  /\ pc = "revParseNewHead"
  /\ IF r = Thrown THEN AwaitStatusTracked(r, cyc, << >>)
     ELSE LET locals == [cyc EXCEPT !.head = Trim(r.stdout)]
          IN  Await(r, "revListCount", << locals.oldHead, locals.head >>, locals, << >>)

\* parseInt(text, 10) || 0, for a text of digits or of none
ParseIntOrZero(text) ==
  LET n == DigitRun(text, 1)
  IN  IF n = 0 THEN 0 ELSE ParseInt(SubSeq(text, 1, n))

AutoPulledFiredUnlessZero(commitCount, newHead) ==
  IF commitCount = 0 THEN << >>
  ELSE << AutoPulledEvent(commitCount, newHead) >>
         \o onAutoPulledListener(commitCount)

\* this._onAutoPulled.fire({ commitCount, newHead }): the event, then what
\* its listener does
AutoPulledFired(commitCount, newHead) ==
  << AutoPulledEvent(commitCount, newHead) >> \o onAutoPulledListener(commitCount)

\* Step 3.5: gitRevListCount, and the auto-pulled event
RevListCountDone(r) ==
  /\ pc = "revListCount"
  /\ IF r = Thrown THEN AwaitStatusTracked(r, cyc, << >>)
     ELSE AwaitStatusTracked(r, cyc,
            AutoPulledFired(ParseIntOrZero(Trim(r.stdout)), cyc.head))

\* Step 3.9: gitStatusTracked
StatusTrackedDone(r) ==
  /\ pc = "statusTracked"
  /\ IF r = Thrown THEN AwaitRevParseTree(r, cyc)
     ELSE IF Trim(r.stdout) # << >> THEN Await(r, "stashCreate", << >>, cyc, << >>)
     ELSE AwaitRevParseTree(r, cyc)

StashCreateDoneFlagOnly(r) ==
  /\ pc = "stashCreate"
  /\ IF r = Thrown THEN AwaitRevParseTree(r, cyc)
     ELSE IF Trim(r.stdout) # << >>
     THEN AwaitRevParseTree(r, [cyc EXCEPT !.dirtyTreeUsed = TRUE])
     ELSE AwaitRevParseTree(r, cyc)

\* Step 3.9: gitStashCreate
StashCreateDone(r) ==
  /\ pc = "stashCreate"
  /\ IF r = Thrown THEN AwaitRevParseTree(r, cyc)
     ELSE IF Trim(r.stdout) # << >>
     THEN AwaitRevParseTree(r, [cyc EXCEPT !.head = Trim(r.stdout),
                                          !.dirtyTreeUsed = TRUE])
     ELSE AwaitRevParseTree(r, cyc)

\* gitRevParse(head^{tree}), then Step 4 begins under the protocol in use
RevParseTreeDone(r) ==
  /\ pc = "revParseTree"
  /\ LET locals == IF r = Thrown THEN cyc ELSE [cyc EXCEPT !.headTree = Trim(r.stdout)]
     IN  IF useModern
         THEN Await(r, "mergeTreeModern", << locals.head, locals.remote >>, locals, << >>)
         ELSE Await(r, "mergeBase", << locals.head, locals.remote >>, locals, << >>)

RawFileSetChangedLengthOnly(rawFilepaths) ==
  Len(rawFilepaths) # Len(lastRawFilepaths)

\* rawFilepaths differs from this.lastRawFilepaths
RawFileSetChanged(rawFilepaths) ==
  \/ Len(rawFilepaths) # Len(lastRawFilepaths)
  \/ \E i \in 1..Len(rawFilepaths) : rawFilepaths[i] # lastRawFilepaths[i]

\* checkNow from the parsed merge-tree result to its end: the resolved-files
\* bookkeeping, the filter, the differ, the event
FinishCycle(r, parsed) ==
  \E t \in Times :
    LET rawFilepaths ==
          SortStrings([i \in 1..Len(parsed.conflictFiles) |->
                         parsed.conflictFiles[i].filepath])
        headTreeChanged == cyc.headTree # lastHeadTree
        resolved == IF headTreeChanged \/ RawFileSetChanged(rawFilepaths)
                    THEN { } ELSE resolvedFiles
        effectiveFiles == Unresolved(parsed.conflictFiles, resolved)
        snapshot == MakeSnapshot(t, StatusOfFiles(effectiveFiles), Absent, Absent,
                                 effectiveFiles, parsed.toplevelTreeOid,
                                 BoolField(cyc.dirtyTreeUsed))
    IN  /\ resolvedFiles' = resolved
        /\ lastHeadTree' = cyc.headTree
        /\ lastRawFilepaths' = rawFilepaths
        /\ previous' = RetainedAfterUpdate(previous, snapshot)
        /\ out' = << Settled(pc, r),
                     SnapshotEvent("checkNow", snapshot, StateChangeOf(previous, snapshot)) >>
        /\ EndCycle
        /\ UNCHANGED << isPaused, useModern, config, disposed >>

\* Step 4, modern: gitMergeTreeModern
MergeTreeModernDone(r) ==
  /\ pc = "mergeTreeModern"
  /\ IF r = Thrown
     THEN FailCycle(r, "merge-tree-failed", "merge-tree failed")
     ELSE FinishCycle(r, ParsedModern[r])

\* Step 4, legacy: gitMergeBase
MergeBaseDone(r) ==
  /\ pc = "mergeBase"
  /\ IF r = Thrown
     THEN FailCycle(r, "merge-tree-failed", "merge-tree failed")
     ELSE LET locals == [cyc EXCEPT !.base = Trim(r.stdout)]
          IN  Await(r, "mergeTreeLegacy", << locals.base, locals.head, locals.remote >>,
                    locals, << >>)

\* Step 4, legacy: gitMergeTreeLegacy
MergeTreeLegacyDone(r) ==
  /\ pc = "mergeTreeLegacy"
  /\ IF r = Thrown
     THEN FailCycle(r, "merge-tree-failed", "merge-tree failed")
     ELSE FinishCycle(r, ParsedLegacy[r])

\* a step of the cycle in flight: the call it awaits settles
CycleStep ==
  /\ pc # "idle"
  /\ \E r \in ExecResults(pc) :
       \/ FetchDone(r)
       \/ RevParseHeadDone(r)
       \/ RevParseRemoteDone(r)
       \/ UpstreamDone(r)
       \/ PullRebaseDone(r)
       \/ RevParseNewHeadDone(r)
       \/ RevListCountDone(r)
       \/ StatusTrackedDone(r)
       \/ StashCreateDone(r)
       \/ RevParseTreeDone(r)
       \/ MergeTreeModernDone(r)
       \/ MergeBaseDone(r)
       \/ MergeTreeLegacyDone(r)

\* gitVersion() settles
StartStep ==
  /\ startPc = "version"
  /\ \E r \in ExecResults("version") : StartVersionDone(r)

\* The detector under the settings it was activated with: every operation
\* but a change of the settings and dispose().
Next ==
  \/ StartStep
  \/ CheckNowCommand
  \/ TimerTick
  \/ TogglePause
  \/ \E filepath \in Paths : MarkResolved(filepath)
  \/ CycleStep

Spec == Init /\ [][Next]_vars

\* every external call settles: a cycle in flight goes on
FairSpec == Spec /\ WF_vars(CycleStep)

(***************************************************************************)
(* The detector under a host whose settings change: the settings the       *)
(* session starts with are any of TimerConfigs, and every change is        *)
(* followed by the listener's restartTimer().                              *)
(***************************************************************************)
TimerConfigs ==
  [enabled : BOOLEAN, pollIntervalSeconds : { 5, DEFAULT_POLL_SECONDS },
   autoPull : { FALSE }]

InitTimer ==
  /\ previous = Undefined
  /\ timer = Undefined
  /\ intervals = { }
  /\ isRunning = FALSE
  /\ isPaused = FALSE
  /\ useModern = TRUE
  /\ resolvedFiles = { }
  /\ lastRawFilepaths = << >>
  /\ lastHeadTree = << >>
  /\ config \in TimerConfigs
  /\ disposed = FALSE
  /\ startPc = "version"
  /\ pc = "idle"
  /\ cyc = NoLocals
  /\ out = << CallOut("version", << >>) >>

NextTimer ==
  \/ StartStep
  \/ CheckNowCommand
  \/ TimerTick
  \/ TogglePause
  \/ \E cfg \in TimerConfigs : ConfigChange(cfg)
  \/ CycleStep

SpecTimer == InitTimer /\ [][NextTimer]_vars

(***************************************************************************)
(* The detector from activation to shutdown under a host whose settings    *)
(* change: start(), the timer, the listener's restartTimer(), the cycles   *)
(* and dispose().                                                          *)
(***************************************************************************)
\* the least number of seconds whose milliseconds exceed TIMEOUT_MAX
FirstOverflowingSeconds == TIMEOUT_MAX \div MS_PER_SECOND + 1

\* the settings: a poll interval below the minimum, the default, and one
\* whose milliseconds the host's timers do not take
LifecycleConfigs ==
  [enabled : BOOLEAN,
   pollIntervalSeconds : { 5, DEFAULT_POLL_SECONDS, FirstOverflowingSeconds },
   autoPull : { FALSE }]

InitLifecycle ==
  /\ previous = Undefined
  /\ timer = Undefined
  /\ intervals = { }
  /\ isRunning = FALSE
  /\ isPaused = FALSE
  /\ useModern = TRUE
  /\ resolvedFiles = { }
  /\ lastRawFilepaths = << >>
  /\ lastHeadTree = << >>
  /\ config \in LifecycleConfigs
  /\ disposed = FALSE
  /\ startPc = "version"
  /\ pc = "idle"
  /\ cyc = NoLocals
  /\ out = << CallOut("version", << >>) >>

NextLifecycle ==
  \/ StartStep
  \/ TimerTick
  \/ \E cfg \in LifecycleConfigs : ConfigChange(cfg)
  \/ CycleStep
  \/ Dispose

SpecLifecycle == InitLifecycle /\ [][NextLifecycle]_vars

(***************************************************************************)
(* The detector under settings with autoPull off or on: the operations     *)
(* that run or start cycles.                                               *)
(***************************************************************************)
AutoPullConfig == [DefaultConfig EXCEPT !.autoPull = TRUE]

InitAutoPull ==
  /\ previous = Undefined
  /\ timer = Undefined
  /\ intervals = { }
  /\ isRunning = FALSE
  /\ isPaused = FALSE
  /\ useModern = TRUE
  /\ resolvedFiles = { }
  /\ lastRawFilepaths = << >>
  /\ lastHeadTree = << >>
  /\ config \in { DefaultConfig, AutoPullConfig }
  /\ disposed = FALSE
  /\ startPc = "version"
  /\ pc = "idle"
  /\ cyc = NoLocals
  /\ out = << CallOut("version", << >>) >>

NextAutoPull ==
  \/ StartStep
  \/ CheckNowCommand
  \/ TimerTick
  \/ CycleStep

SpecAutoPull == InitAutoPull /\ [][NextAutoPull]_vars

\* exec settles every call within its timeout, so the await of a cycle in
\* flight always ends
FairSpecAutoPull == SpecAutoPull /\ WF_vars(CycleStep)

(***************************************************************************)
(* The differ on its own: a ConflictState handed any snapshots.            *)
(***************************************************************************)
\* a conflict entry as the tests of the differ build it
makeConflictFile(filepath) ==
  [filepath |-> filepath, baseOid |-> EMPTY_OID, oursOid |-> OidOf("1"),
   theirsOid |-> OidOf("2")]

\* Date.now() at two moments
DifferTimes == { 0, 1 }

\* the snapshots a detector hands to the differ: conflicts over a list of
\* paths in any order, and clean, checking, paused and error without files
DifferSnapshots ==
  UNION { { MakeSnapshot(t, status, errorKind,
                         IF errorKind = Absent THEN Absent ELSE "message",
                         [i \in 1..Len(ps) |-> makeConflictFile(ps[i])],
                         IF status \in { "clean", "conflicts" } THEN TreeLine ELSE << >>,
                         Absent) :
              t \in DifferTimes,
              ps \in IF status = "conflicts" THEN PathLists \ { << >> } ELSE { << >> },
              errorKind \in IF status = "error" THEN ErrorKinds ELSE { Absent } } :
          status \in ConflictStatus }

\* state.update(snapshot)
DifferUpdate(snapshot) ==
  /\ out' = << UpdateRecord(previous, snapshot, StateChangeOf(previous, snapshot)) >>
  /\ previous' = RetainedAfterUpdate(previous, snapshot)
  /\ UNCHANGED << timer, intervals, isRunning, isPaused, useModern, resolvedFiles,
                  lastRawFilepaths, lastHeadTree, config, disposed, startPc, pc, cyc >>

\* state.reset()
DifferReset ==
  /\ out' = << ResetRecord >>
  /\ previous' = RetainedAfterReset
  /\ UNCHANGED << timer, intervals, isRunning, isPaused, useModern, resolvedFiles,
                  lastRawFilepaths, lastHeadTree, config, disposed, startPc, pc, cyc >>

InitDiffer ==
  /\ previous = Undefined
  /\ out = << >>
  /\ timer = Undefined
  /\ intervals = { }
  /\ isRunning = FALSE
  /\ isPaused = FALSE
  /\ useModern = TRUE
  /\ resolvedFiles = { }
  /\ lastRawFilepaths = << >>
  /\ lastHeadTree = << >>
  /\ config = DefaultConfig
  /\ disposed = FALSE
  /\ startPc = "done"
  /\ pc = "idle"
  /\ cyc = NoLocals

NextDiffer ==
  \/ \E snapshot \in DifferSnapshots : DifferUpdate(snapshot)
  \/ DifferReset

SpecDiffer == InitDiffer /\ [][NextDiffer]_vars

(***************************************************************************)
(* The differ on its own, handed snapshots that also differ in what it     *)
(* does not compare.                                                       *)
(***************************************************************************)
\* a conflict entry with other object identifiers than makeConflictFile's
makeConflictFileOther(filepath) ==
  [filepath |-> filepath, baseOid |-> OidOf("3"), oursOid |-> EMPTY_OID,
   theirsOid |-> OidOf("4")]

\* the snapshot with the status, the paths, the timestamp and the errorKind
\* of snapshot and with other object identifiers, another toplevelTreeOid,
\* dirtyTreeUsed set and another errorMessage
OtherDetail(snapshot) ==
  [snapshot EXCEPT
     !.conflictFiles = [i \in 1..Len(snapshot.conflictFiles) |->
                          makeConflictFileOther(snapshot.conflictFiles[i].filepath)],
     !.toplevelTreeOid = IF snapshot.status \in { "clean", "conflicts" }
                         THEN << "U" >> ELSE << >>,
     !.dirtyTreeUsed = IF snapshot.status \in { "clean", "conflicts" }
                       THEN BoolField(TRUE) ELSE Absent,
     !.errorMessage = IF snapshot.errorKind = Absent THEN Absent ELSE "other"]

DetailedSnapshots == DifferSnapshots \cup { OtherDetail(s) : s \in DifferSnapshots }

NextDetailed ==
  \/ \E snapshot \in DetailedSnapshots : DifferUpdate(snapshot)
  \/ DifferReset

SpecDetailed == InitDiffer /\ [][NextDetailed]_vars

(***************************************************************************)
(* supportsModernMergeTree on its own: a version text is drawn, then the   *)
(* function is applied to it.                                              *)
(***************************************************************************)
MaxVersionLen == 5

VersionChars == { "0", "2", "3", "7", "8", ".", "a" }

VersionStrings == UNION { [1..n -> VersionChars] : n \in 0..MaxVersionLen }

\* a text about to be passed to supportsModernMergeTree
VersionInput(versionString) ==
  [kind |-> "versionInput", versionString |-> versionString]

\* supportsModernMergeTree(versionString) returned result
VersionRecord(versionString, result) ==
  [kind |-> "supportsModernMergeTree", versionString |-> versionString,
   result |-> result]

VersionCall ==
  /\ Len(out) = 1
  /\ out[1].kind = "versionInput"
  /\ out' = << VersionRecord(out[1].versionString,
                             supportsModernMergeTree(out[1].versionString)) >>
  /\ UNCHANGED << previous, timer, intervals, isRunning, isPaused, useModern,
                  resolvedFiles, lastRawFilepaths, lastHeadTree, config,
                  disposed, startPc, pc, cyc >>

InitVersion ==
  /\ out \in { << VersionInput(v) >> : v \in VersionStrings }
  /\ previous = Undefined
  /\ timer = Undefined
  /\ intervals = { }
  /\ isRunning = FALSE
  /\ isPaused = FALSE
  /\ useModern = TRUE
  /\ resolvedFiles = { }
  /\ lastRawFilepaths = << >>
  /\ lastHeadTree = << >>
  /\ config = DefaultConfig
  /\ disposed = FALSE
  /\ startPc = "done"
  /\ pc = "idle"
  /\ cyc = NoLocals

NextVersion == VersionCall

SpecVersion == InitVersion /\ [][NextVersion]_vars

(***************************************************************************)
(* exec on its own: an operation of gitOps.ts and what its process ends    *)
(* with are drawn, then exec is applied.                                   *)
(***************************************************************************)
\* what a process may end with: exit codes in and out of every operation's
\* expected set, with and without output, the timeout, the output limit
ExecOutcomes ==
  { ProcessTimeout, ProcessMaxBuffer }
    \cup { ProcessExit(code, stdout) :
             code \in { 0, 1, 2, 128, 129 }, stdout \in { << >>, << "x" >> \o NL } }

\* the process of an operation has ended and exec is about to answer
ExecInput(op, outcome) == [kind |-> "execInput", op |-> op, outcome |-> outcome]

\* exec answered the operation with result
ExecRecord(op, outcome, result) ==
  [kind |-> "exec", op |-> op, outcome |-> outcome, result |-> result]

ExecCall ==
  /\ Len(out) = 1
  /\ out[1].kind = "execInput"
  /\ out' = << ExecRecord(out[1].op, out[1].outcome,
                          Exec(out[1].outcome, AllowedExitCodes(out[1].op))) >>
  /\ UNCHANGED << previous, timer, intervals, isRunning, isPaused, useModern,
                  resolvedFiles, lastRawFilepaths, lastHeadTree, config,
                  disposed, startPc, pc, cyc >>

InitExec ==
  /\ out \in { << ExecInput(op, outcome) >> : op \in Ops, outcome \in ExecOutcomes }
  /\ previous = Undefined
  /\ timer = Undefined
  /\ intervals = { }
  /\ isRunning = FALSE
  /\ isPaused = FALSE
  /\ useModern = TRUE
  /\ resolvedFiles = { }
  /\ lastRawFilepaths = << >>
  /\ lastHeadTree = << >>
  /\ config = DefaultConfig
  /\ disposed = FALSE
  /\ startPc = "done"
  /\ pc = "idle"
  /\ cyc = NoLocals

NextExec == ExecCall

SpecExec == InitExec /\ [][NextExec]_vars

(***************************************************************************)
(* The parsers on their own: a text is drawn, line by line, then the       *)
(* parser is applied to it.                                                *)
(***************************************************************************)
MaxModernLines == 3
MaxLegacyLines == 4

\* a stage line but for a space where the TAB belongs
SpaceForTabLine ==
  FileMode \o << " " >> \o OidOf("a") \o << " ", "2", " " >> \o PathNames[1]

\* what line 0 of the modern output may be
ModernFirstLines ==
  { TreeLine, << " " >> \o TreeLine \o << " " >>, << >>,
    ModernStageLine(OidOf("a"), "2", PathNames[2]) }

\* what a later line of the modern output may be: stage lines of two paths,
\* a repeated stage with another identifier, a stage digit that is no stage,
\* a stage line ending in a carriage return, a line that is no stage line, a
\* message, a line of white space, the empty line
ModernLinePool ==
  { ModernStageLine(OidOf("a"), "1", PathNames[1]),
    ModernStageLine(OidOf("b"), "2", PathNames[1]),
    ModernStageLine(OidOf("c"), "3", PathNames[1]),
    ModernStageLine(OidOf("d"), "2", PathNames[2]),
    ModernStageLine(OidOf("e"), "2", PathNames[1]),
    ModernStageLine(OidOf("f"), "0", PathNames[3]),
    ModernStageLine(OidOf("a"), "3", PathNames[2]) \o << "\r" >>,
    SpaceForTabLine,
    InfoLine,
    << " " >>,
    << >> }

ModernTexts ==
  { JoinLines(<< first >> \o rest) :
      first \in ModernFirstLines,
      rest \in UNION { [1..n -> ModernLinePool] : n \in 0..MaxModernLines } }

\* a content line indented by a TAB, and an indented line that is no
\* content line
TabIndentedLine ==
  << "\t" >> \o LegacySides[3] \o << " " >> \o FileMode \o << " " >> \o OidOf("c")
    \o << " " >> \o PathNames[1]
IndentedOtherLine == << " ", " " >> \o InfoLine

\* what a line of the legacy output may be: the headers, one of them with
\* text after it, content lines of two paths, an indented line that is no
\* content line, a line that is not indented, the empty line
LegacyLinePool ==
  { ChangedInBoth,
    AddedInBoth \o << " ", "x" >>,
    RemovedInBoth,
    LegacyContentLine(LegacySides[1], OidOf("a"), PathNames[1]),
    LegacyContentLine(LegacySides[2], OidOf("b"), PathNames[1]),
    LegacyContentLine(LegacySides[2], OidOf("d"), PathNames[2]),
    TabIndentedLine,
    IndentedOtherLine,
    InfoLine,
    << >> }

LegacyTexts ==
  { JoinLines(lines) :
      lines \in UNION { [1..n -> LegacyLinePool] : n \in 1..MaxLegacyLines } }

\* a text about to be passed to a parser
ParserInput(parser, stdout, exitCode) ==
  [kind |-> "parserInput", parser |-> parser, stdout |-> stdout,
   exitCode |-> exitCode]

\* the parser returned result for the text
ParserRecord(parser, stdout, exitCode, result) ==
  [kind |-> "parsed", parser |-> parser, stdout |-> stdout,
   exitCode |-> exitCode, result |-> result]

ModernCall ==
  /\ Len(out) = 1
  /\ out[1].kind = "parserInput"
  /\ out[1].parser = "modern"
  /\ out' = << ParserRecord("modern", out[1].stdout, out[1].exitCode,
                            parseModernMergeTree(out[1].stdout, out[1].exitCode)) >>
  /\ UNCHANGED << previous, timer, intervals, isRunning, isPaused, useModern,
                  resolvedFiles, lastRawFilepaths, lastHeadTree, config,
                  disposed, startPc, pc, cyc >>

LegacyCall ==
  /\ Len(out) = 1
  /\ out[1].kind = "parserInput"
  /\ out[1].parser = "legacy"
  /\ out' = << ParserRecord("legacy", out[1].stdout, 0,
                            parseLegacyMergeTree(out[1].stdout)) >>
  /\ UNCHANGED << previous, timer, intervals, isRunning, isPaused, useModern,
                  resolvedFiles, lastRawFilepaths, lastHeadTree, config,
                  disposed, startPc, pc, cyc >>

InitParser ==
  /\ out \in { << ParserInput("modern", text, exitCode) >> :
                 text \in ModernTexts, exitCode \in { 0, 1 } }
             \cup { << ParserInput("legacy", text, 0) >> : text \in LegacyTexts }
  /\ previous = Undefined
  /\ timer = Undefined
  /\ intervals = { }
  /\ isRunning = FALSE
  /\ isPaused = FALSE
  /\ useModern = TRUE
  /\ resolvedFiles = { }
  /\ lastRawFilepaths = << >>
  /\ lastHeadTree = << >>
  /\ config = DefaultConfig
  /\ disposed = FALSE
  /\ startPc = "done"
  /\ pc = "idle"
  /\ cyc = NoLocals

NextParser ==
  \/ ModernCall
  \/ LegacyCall

SpecParser == InitParser /\ [][NextParser]_vars

(***************************************************************************)
(* Properties of the detector and of the differ.                           *)
(***************************************************************************)
\* the snapshot events of out
IsSnapshotEvent(e) == e.kind = "conflictsUpdated"

\* the snapshot events of out fired by checkNow
IsCycleEvent(e) == e.kind = "conflictsUpdated" /\ e.origin = "checkNow"

CycleEvents(o) == SelectSeq(o, IsCycleEvent)

\* the set of the conflicting paths of a snapshot
PathSet(snapshot) ==
  { snapshot.conflictFiles[i].filepath : i \in 1..Len(snapshot.conflictFiles) }

\* the update the differ on its own has just made, if any
DifferUpdated == Len(out) = 1 /\ out[1].kind = "update"

FirstUseChange(snapshot) ==
  [changed |-> TRUE, isNewConflict |-> snapshot.status = "conflicts"]

NoChange == [changed |-> FALSE, isNewConflict |-> FALSE]

\* C1: a step that enters checkNow while a cycle is in flight (from the timer,
\* the command, a resume or start) publishes no snapshot, issues no call and
\* leaves the cycle in flight, the differ and the resolved-files bookkeeping
\* as they were; a cycle is in flight exactly when the flag is set.
C1_InFlightGuard ==
  /\ [](isRunning <=> pc # "idle")
  /\ [][ (isRunning /\ \E i \in 1..Len(out') : out'[i].kind = "checkNow")
         => /\ \A i \in 1..Len(out') : out'[i].kind \in { "checkNow", "settled", "timer", "togglePause" }
            /\ UNCHANGED << previous, isRunning, pc, cyc, resolvedFiles,
                            lastRawFilepaths, lastHeadTree >> ]_vars

\* checkNow has just returned at its guard, the cycle in flight awaiting the
\* merge simulation
C1_Witness ==
  /\ isRunning
  /\ pc = "mergeTreeModern"
  /\ out = << CheckNowEntered >>

\* C2: the step that starts a cycle publishes one checking snapshot and only
\* then issues a call; no later step of the cycle publishes a snapshot but the
\* one that ends it, which publishes exactly one, of status clean, conflicts or
\* error; and every cycle in flight ends when every call settles.
C2_CycleSnapshots ==
  /\ [][ /\ (~isRunning /\ isRunning')
            => /\ Len(CycleEvents(out')) = 1
               /\ CycleEvents(out')[1].snapshot.status = "checking"
               /\ \E i \in 1..Len(out') :
                    /\ IsCycleEvent(out'[i])
                    /\ \A j \in 1..Len(out') : out'[j].kind = "call" => i < j
         /\ (isRunning /\ isRunning') => Len(CycleEvents(out')) = 0
         /\ (isRunning /\ ~isRunning')
            => /\ Len(CycleEvents(out')) = 1
               /\ CycleEvents(out')[1].snapshot.status \in { "clean", "conflicts", "error" }
               /\ \A j \in 1..Len(out') : out'[j].kind # "call" ]_vars
  /\ [](isRunning => <>(~isRunning))

\* a cycle has just ended in conflicts
C2_Witness ==
  /\ ~isRunning
  /\ Len(CycleEvents(out)) = 1
  /\ CycleEvents(out)[1].snapshot.status = "conflicts"

\* C3: every snapshot the detector publishes, and the one the differ retains,
\* has status conflicts exactly when its conflictFiles is not empty.
C3_ConflictsIffFiles ==
  /\ \A i \in 1..Len(out) :
       IsSnapshotEvent(out[i])
       => (out[i].snapshot.status = "conflicts"
           <=> Len(out[i].snapshot.conflictFiles) > 0)
  /\ previous # Undefined
     => (previous.status = "conflicts" <=> Len(previous.conflictFiles) > 0)

\* a cycle whose merge simulation reported conflicts (exit code 1) has just
\* published clean, every conflicting file being marked resolved
C3_Witness ==
  /\ Len(out) = 2
  /\ out[1].kind = "settled"
  /\ out[1].exitCode = 1
  /\ IsCycleEvent(out[2])
  /\ out[2].snapshot.status = "clean"
  /\ out[2].snapshot.conflictFiles = << >>

\* the step that failed, for each kind of error
FailedStepOf(errorKind) ==
  CASE errorKind = "fetch-failed" -> { "fetch" }
    [] errorKind = "no-head" -> { "revParseHead" }
    [] errorKind = "branch-missing" -> { "revParseRemote" }
    [] errorKind = "merge-tree-failed" -> { "mergeTreeModern", "mergeBase", "mergeTreeLegacy" }

\* C4: when the fetch, the resolution of HEAD, the resolution of the remote
\* ref, or the merge simulation (merge-base included) fails, the step publishes
\* an error snapshot of kind fetch-failed, no-head, branch-missing or
\* merge-tree-failed respectively, with a message and no conflict files; an
\* error snapshot is published by no other step, and a snapshot of any other
\* status has no errorKind.
C4_ErrorClassification ==
  /\ \A kind \in ErrorKinds :
       (/\ Len(out) > 0
        /\ out[1].kind = "settled"
        /\ out[1].op \in FailedStepOf(kind)
        /\ out[1].threw)
       => /\ Len(out) = 2
          /\ IsCycleEvent(out[2])
          /\ out[2].snapshot.status = "error"
          /\ out[2].snapshot.errorKind = kind
  /\ \A i \in 1..Len(out) :
       IsSnapshotEvent(out[i])
       => IF out[i].snapshot.status = "error"
          THEN /\ out[i].snapshot.errorKind \in ErrorKinds
               /\ out[i].snapshot.errorMessage # Absent
               /\ out[i].snapshot.conflictFiles = << >>
               /\ out[1].kind = "settled"
               /\ out[1].threw
               /\ out[1].op \in FailedStepOf(out[i].snapshot.errorKind)
          ELSE out[i].snapshot.errorKind = Absent

\* the merge-base of the legacy protocol has just failed
C4_Witness ==
  /\ Len(out) = 2
  /\ out[1] = Settled("mergeBase", Thrown)
  /\ out[2].snapshot.status = "error"
  /\ out[2].snapshot.errorKind = "merge-tree-failed"

\* C5: an update with a retained snapshot reports isNewConflict exactly when
\* the new status is conflicts and either the retained status is clean, error
\* or paused, or the retained status is conflicts and the sets of conflicting
\* paths differ.
C5_IsNewConflictTable ==
  (DifferUpdated /\ out[1].prior # Undefined)
  => (out[1].change.isNewConflict
      <=> /\ out[1].snapshot.status = "conflicts"
          /\ \/ out[1].prior.status \in { "clean", "error", "paused" }
             \/ /\ out[1].prior.status = "conflicts"
                /\ PathSet(out[1].prior) # PathSet(out[1].snapshot))

\* conflicts to conflicts over a smaller set of paths: a new conflict
C5_Witness ==
  /\ DifferUpdated
  /\ out[1].prior # Undefined
  /\ out[1].prior.status = "conflicts"
  /\ out[1].snapshot.status = "conflicts"
  /\ Len(out[1].prior.conflictFiles) = 2
  /\ Len(out[1].snapshot.conflictFiles) = 1
  /\ out[1].change.isNewConflict

\* C6: an update with nothing retained reports changed and reports
\* isNewConflict exactly when the new status is conflicts; reset() leaves
\* nothing retained, and the update that follows a reset is such an update
\* whatever was retained before.
C6_FirstUseAndReset ==
  /\ []((DifferUpdated /\ out[1].prior = Undefined)
        => out[1].change = FirstUseChange(out[1].snapshot))
  /\ [](out = << ResetRecord >> => previous = Undefined)
  /\ [][ (out = << ResetRecord >> /\ out' # out)
         => /\ out'[1].kind = "update"
            /\ out'[1].prior = Undefined
            /\ out'[1].change = FirstUseChange(out'[1].snapshot) ]_vars

\* an update with nothing retained, to conflicts
C6_Witness ==
  /\ DifferUpdated
  /\ out[1].prior = Undefined
  /\ out[1].snapshot.status = "conflicts"
  /\ out[1].change = [changed |-> TRUE, isNewConflict |-> TRUE]

\* C7: an update with a retained snapshot reports changed exactly when the
\* status differs or the sets of conflicting paths differ, whatever the order
\* of the paths; with the same status and the same set it reports neither
\* changed nor isNewConflict.
C7_ChangedFlag ==
  (DifferUpdated /\ out[1].prior # Undefined)
  => /\ out[1].change.changed
        <=> \/ out[1].prior.status # out[1].snapshot.status
            \/ PathSet(out[1].prior) # PathSet(out[1].snapshot)
     /\ (/\ out[1].prior.status = out[1].snapshot.status
         /\ PathSet(out[1].prior) = PathSet(out[1].snapshot))
        => out[1].change = NoChange

\* the same two paths in the other order: no change
C7_Witness ==
  /\ DifferUpdated
  /\ out[1].prior # Undefined
  /\ out[1].prior.status = "conflicts"
  /\ out[1].snapshot.status = "conflicts"
  /\ Len(out[1].snapshot.conflictFiles) = 2
  /\ FilePaths(out[1].prior) # FilePaths(out[1].snapshot)
  /\ out[1].change = NoChange

\* C8: after an update the retained snapshot is the snapshot passed in, and a
\* step changes the retained snapshot only when it is an update or a reset.
C8_RetainedIsLast ==
  /\ [](DifferUpdated => previous = out[1].snapshot)
  /\ [][ previous' # previous
         => /\ Len(out') = 1
            /\ out'[1].kind \in { "update", "reset" } ]_vars

\* a checking snapshot that differs from the retained one in its timestamp
\* only: no change reported, and it is retained
C8_Witness ==
  /\ DifferUpdated
  /\ out[1].prior # Undefined
  /\ out[1].prior # out[1].snapshot
  /\ out[1].snapshot.status = "checking"
  /\ out[1].change = NoChange
  /\ previous = out[1].snapshot

\* C9: an update whose retained snapshot has status checking never reports
\* isNewConflict.
C9_CheckingIsNoBaseline ==
  (DifferUpdated /\ out[1].prior # Undefined /\ out[1].prior.status = "checking")
  => ~out[1].change.isNewConflict

\* checking to conflicts: changed, no new conflict
C9_Witness ==
  /\ DifferUpdated
  /\ out[1].prior # Undefined
  /\ out[1].prior.status = "checking"
  /\ out[1].snapshot.status = "conflicts"
  /\ out[1].change = [changed |-> TRUE, isNewConflict |-> FALSE]

\* C10: a cycle that fails while the differ retains an error snapshot of the
\* same errorKind (the last cycle before it failed alike) reports neither
\* changed nor isNewConflict; a cycle that fails while the differ retains a
\* conflicts snapshot reports changed and no new conflict.
C10_ErrorThroughDiffer ==
  [][ \A i \in 1..Len(out') :
        (/\ IsCycleEvent(out'[i])
         /\ out'[i].snapshot.status = "error"
         /\ previous # Undefined)
        => /\ (/\ previous.status = "error"
               /\ previous.errorKind = out'[i].snapshot.errorKind)
              => out'[i].change = NoChange
           /\ previous.status = "conflicts"
              => out'[i].change = [changed |-> TRUE, isNewConflict |-> FALSE] ]_vars

\* a second failure of the fetch in a row has just been published
C10_Witness ==
  /\ Len(out) = 2
  /\ out[1].kind = "settled"
  /\ out[1].op = "fetch"
  /\ IsCycleEvent(out[2])
  /\ out[2].snapshot.errorKind = "fetch-failed"
  /\ out[2].change = NoChange

\* a step that ends a cycle with the result of a merge simulation
CycleCompletes ==
  /\ isRunning
  /\ ~isRunning'
  /\ Len(out') = 2
  /\ IsCycleEvent(out'[2])
  /\ out'[2].snapshot.status # "error"

\* C11: when a cycle completes with the raw conflicting paths and the tree
\* of the last completed cycle, no failed cycle in between, its snapshot is
\* reported with neither changed nor isNewConflict.
C11_SameSetNotAnnouncedTwice ==
  [][ (/\ CycleCompletes
       /\ previous # Undefined
       /\ previous.status \in { "clean", "conflicts" }
       /\ lastRawFilepaths' = lastRawFilepaths
       /\ lastHeadTree' = lastHeadTree)
      => out'[2].change = NoChange ]_vars

\* a second cycle in a row has just found the same two conflicting paths
C11_Witness ==
  /\ Len(out) = 2
  /\ out[1].kind = "settled"
  /\ out[1].exitCode = 1
  /\ IsCycleEvent(out[2])
  /\ out[2].snapshot.status = "conflicts"
  /\ Len(out[2].snapshot.conflictFiles) = 2
  /\ resolvedFiles = { }
  /\ out[2].change = NoChange

\* C12: markResolved(path) adds the path to resolvedFiles; when the retained
\* snapshot has status conflicts it publishes, and retains, that snapshot with
\* every resolved path filtered out of its list and the status conflicts or
\* clean as the rest is non-empty or empty; otherwise (nothing retained, or
\* clean or error retained) it publishes nothing and the differ is unchanged.
C12_MarkResolved ==
  [][ \A p \in Paths :
        (Len(out') > 0 /\ out'[1] = MarkResolvedEntered(p))
        => /\ resolvedFiles' = resolvedFiles \cup { p }
           /\ IF previous # Undefined /\ previous.status = "conflicts"
              THEN LET rest == SelectSeq(previous.conflictFiles,
                                         LAMBDA f : f.filepath \notin resolvedFiles')
                   IN  /\ Len(out') = 2
                       /\ IsSnapshotEvent(out'[2])
                       /\ out'[2].origin = "markResolved"
                       /\ out'[2].snapshot.conflictFiles = rest
                       /\ out'[2].snapshot.status =
                            (IF rest = << >> THEN "clean" ELSE "conflicts")
                       /\ previous' = out'[2].snapshot
              ELSE /\ Len(out') = 1
                   /\ previous' = previous ]_vars

\* the second of two conflicting paths has just been marked resolved: clean
C12_Witness ==
  /\ Len(out) = 2
  /\ out[1].kind = "markResolved"
  /\ out[2].snapshot.status = "clean"
  /\ out[2].snapshot.conflictFiles = << >>
  /\ out[2].change = [changed |-> TRUE, isNewConflict |-> FALSE]
  /\ resolvedFiles = Paths
  /\ Len(lastRawFilepaths) = 2

\* the paths of a list of paths, as a set
PathsOf(paths) == { paths[i] : i \in 1..Len(paths) }

\* C13: a cycle that completes retains the tree of its head and its raw
\* conflicting paths; it empties resolvedFiles when either differs from the
\* one retained before and leaves resolvedFiles alone otherwise, and it
\* publishes the raw paths but those still in resolvedFiles.  A cycle that
\* ends in an error changes none of the three.
C13_ResolvedFilesBookkeeping ==
  [][ /\ CycleCompletes
         => /\ lastHeadTree' = cyc.headTree
            /\ (out'[1].op = "mergeTreeModern" /\ out'[1].exitCode = 0)
               => lastRawFilepaths' = << >>
            /\ resolvedFiles' =
                 (IF \/ PathsOf(lastRawFilepaths') # PathsOf(lastRawFilepaths)
                     \/ lastHeadTree' # lastHeadTree
                  THEN { } ELSE resolvedFiles)
            /\ PathSet(out'[2].snapshot) = PathsOf(lastRawFilepaths') \ resolvedFiles'
      /\ (/\ isRunning
          /\ ~isRunning'
          /\ out'[2].snapshot.status = "error")
         => UNCHANGED << resolvedFiles, lastRawFilepaths, lastHeadTree >> ]_vars

\* a cycle has just completed with two raw conflicting paths, one of them
\* still marked resolved and filtered out
C13_Witness ==
  /\ Len(out) = 2
  /\ out[1].kind = "settled"
  /\ IsCycleEvent(out[2])
  /\ out[2].snapshot.status = "conflicts"
  /\ Len(lastRawFilepaths) = 2
  /\ Cardinality(resolvedFiles) = 1
  /\ PathSet(out[2].snapshot) = PathsOf(lastRawFilepaths) \ resolvedFiles

\* C14: the toggle that pauses publishes at once one snapshot of status
\* paused with no conflict files, no errorKind and no errorMessage, and leaves
\* the cycle in flight and the differ alone; while paused a timer tick enters
\* no checkNow, issues no call, publishes nothing and changes no state.
C14_PauseSuppressesTicks ==
  [][ /\ (~isPaused /\ isPaused')
         => /\ Len(out') = 2
            /\ out'[1] = TogglePauseEntered
            /\ IsSnapshotEvent(out'[2])
            /\ out'[2].origin = "togglePause"
            /\ out'[2].snapshot.status = "paused"
            /\ out'[2].snapshot.conflictFiles = << >>
            /\ out'[2].snapshot.errorKind = Absent
            /\ out'[2].snapshot.errorMessage = Absent
            /\ UNCHANGED << previous, isRunning, pc, cyc >>
      /\ (isPaused /\ Len(out') > 0 /\ out'[1].kind = "timer")
         => /\ out' = << TimerFired >>
            /\ UNCHANGED << previous, timer, intervals, isRunning, isPaused, useModern,
                            resolvedFiles, lastRawFilepaths, lastHeadTree,
                            config, disposed, startPc, pc, cyc >> ]_vars

\* the timer has just ticked while paused with no cycle in flight
C14_Witness ==
  /\ isPaused
  /\ ~isRunning
  /\ out = << TimerFired >>

\* what checkNow leaves in out when it starts a cycle
IsCycleStart(o) ==
  /\ Len(o) = 3
  /\ o[1] = CheckNowEntered
  /\ IsCycleEvent(o[2])
  /\ o[2].snapshot.status = "checking"
  /\ o[3] = CallOut("fetch", << >>)

\* C15 as stated: every toggle from paused to resumed publishes a checking
\* snapshot and starts a cycle in the same step.
C15_ResumeAlwaysStartsCycle ==
  [][ (isPaused /\ ~isPaused')
      => /\ IsCycleStart(Tail(out'))
         /\ isRunning'
         /\ pc' = "fetch" ]_vars

\* C15, amended: every toggle from paused to resumed enters checkNow in the
\* same step; when no cycle is in flight that step publishes a checking
\* snapshot, issues the fetch and a cycle is in flight; when a cycle is in
\* flight the step publishes nothing, issues no call and leaves that cycle
\* and the differ as they were.
C15_ResumeStartsCycleUnlessInFlight ==
  [][ (isPaused /\ ~isPaused')
      => /\ out'[1] = TogglePauseEntered
         /\ IF ~isRunning
            THEN /\ IsCycleStart(Tail(out'))
                 /\ isRunning'
                 /\ pc' = "fetch"
            ELSE /\ Tail(out') = << CheckNowEntered >>
                 /\ UNCHANGED << previous, isRunning, pc, cyc >> ]_vars

\* a resume has just started a cycle
C15_Witness ==
  /\ ~isPaused
  /\ isRunning
  /\ pc = "fetch"
  /\ Len(out) = 4
  /\ out[1] = TogglePauseEntered
  /\ IsCycleStart(Tail(out))

\* C16: the toggle that pauses leaves a cycle in flight where it is; a cycle
\* in flight while paused goes on to its end, where it publishes its one
\* concluding snapshot although paused; and while paused the checkNow command
\* still starts a cycle: only the timer's ticks are suppressed.
C16_PauseDoesNotCancel ==
  /\ [][ /\ (~isPaused /\ isPaused') => UNCHANGED << isRunning, pc, cyc >>
         /\ (isPaused /\ isRunning /\ ~isRunning')
            => /\ Len(CycleEvents(out')) = 1
               /\ CycleEvents(out')[1].snapshot.status \in { "clean", "conflicts", "error" }
               /\ isPaused'
         /\ (isPaused /\ ~isRunning /\ Len(out') > 0 /\ out'[1] = CheckNowEntered)
            => /\ IsCycleStart(out')
               /\ isRunning' ]_vars
  /\ []((isPaused /\ isRunning) => <>(~isRunning))

\* the detector has just been paused while a cycle awaits the merge simulation
C16_Witness ==
  /\ isPaused
  /\ isRunning
  /\ pc = "mergeTreeModern"
  /\ Len(out) = 2
  /\ out[1] = TogglePauseEntered
  /\ out[2].snapshot.status = "paused"

C18_MergeUsesDetectedProtocol ==
  /\ [](startPc # "version"
        => /\ (pc = "mergeTreeModern") => useModern
           /\ (pc \in { "mergeBase", "mergeTreeLegacy" }) => ~useModern)
  /\ [][startPc # "version" => UNCHANGED useModern]_vars

\* the digits of text from position from up to the digit before position to
DigitsBetween(text, from, to) == SubSeq(text, from, to - 1)

\* text has digits from position i up to a dot at position j and digits after
\* it up to position k, and neither run of digits can be extended
IsPairAt(text, i, j, k) ==
  /\ i < j /\ j < k
  /\ \A p \in (i..(j - 1)) \cup ((j + 1)..k) : text[p] \in Digits
  /\ text[j] = "."
  /\ (i > 1 => text[i - 1] \notin Digits)
  /\ (k < Len(text) => text[k + 1] \notin Digits)

\* a pair of text starts at position i
PairStartsAt(text, i) ==
  \E j, k \in 1..Len(text) : IsPairAt(text, i, j, k)

\* C19: supportsModernMergeTree(text) is true exactly when text has an
\* 'integer.integer' pair and the first one has a first component above 2, or
\* of 2 with a second component of at least 38; the result is that of the
\* text cut after its first pair; a text without a pair gives false.
C19_VersionThreshold ==
  \A e \in { out[n] : n \in 1..Len(out) } :
    e.kind = "supportsModernMergeTree"
    => LET text == e.versionString
           positions == 1..Len(text)
       IN  /\ e.result
               <=> \E i, j, k \in positions :
                     /\ IsPairAt(text, i, j, k)
                     /\ \A h \in 1..(i - 1) : ~PairStartsAt(text, h)
                     /\ LET major == ParseInt(DigitsBetween(text, i, j))
                            minor == ParseInt(DigitsBetween(text, j + 1, k + 1))
                        IN  major > 2 \/ (major = 2 /\ minor >= 38)
           /\ \A i, j, k \in positions :
                (IsPairAt(text, i, j, k) /\ \A h \in 1..(i - 1) : ~PairStartsAt(text, h))
                => e.result = supportsModernMergeTree(SubSeq(text, 1, k))
           /\ (\A i \in positions : ~PairStartsAt(text, i)) => ~e.result

\* the function has answered for a text whose first pair, 2.7, is below the
\* threshold and is followed by one above it, 7.3
C19_Witness ==
  /\ Len(out) = 1
  /\ out[1] = VersionRecord(<< "2", ".", "7", ".", "3" >>, FALSE)

\* the calls of the auto-update step, and the calls of the merge simulation
AutoPullOps == { "upstream", "pullRebase", "revParseNewHead", "revListCount" }

MergeOps == { "mergeTreeModern", "mergeBase", "mergeTreeLegacy" }

\* C20: when a call of the auto-update step settles, whether it failed or
\* not, the step publishes no snapshot, leaves the differ alone and leaves
\* the cycle in flight, awaiting a later call of the auto-update step or the
\* check of the working tree; a cycle ends only where the fetch, the
\* resolution of HEAD or of the remote ref, or the merge simulation settles;
\* and a cycle that awaits a call of the auto-update step goes on to the
\* merge simulation.
C20_AutoPullFailuresSwallowed ==
  /\ [][ /\ (pc \in AutoPullOps /\ Len(out') > 0 /\ out'[1].kind = "settled"
             /\ out'[1].op = pc)
            => /\ isRunning'
               /\ CycleEvents(out') = << >>
               /\ previous' = previous
               /\ pc' \in (AutoPullOps \ { "upstream" }) \cup { "statusTracked" }
               /\ (out'[1].threw \/ out'[1].exitCode # 0) => pc' = "statusTracked"
         /\ (isRunning /\ ~isRunning')
            => pc \in { "fetch", "revParseHead", "revParseRemote" } \cup MergeOps ]_vars
  /\ [](pc \in AutoPullOps => <>(pc \in MergeOps))

\* the pull has just failed by throwing and the cycle awaits the check of the
\* working tree
C20_Witness ==
  /\ isRunning
  /\ pc = "statusTracked"
  /\ Len(out) = 2
  /\ out[1].kind = "settled"
  /\ out[1].op = "pullRebase"
  /\ out[1].threw
  /\ out[2] = CallOut("statusTracked", << >>)

\* a call of the auto-update step has just settled with a failure: it threw
\* or ended with an exit code other than 0
AutoPullStepFails ==
  /\ pc \in AutoPullOps
  /\ Len(out') > 0
  /\ out'[1].kind = "settled"
  /\ out'[1].op = pc
  /\ (out'[1].threw \/ out'[1].exitCode # 0)

\* the HEAD the cycle resolved before it attempted the auto-update
PreUpdateHead == IF pc = "upstream" THEN cyc.head ELSE cyc.oldHead

\* C21 as stated: whichever call of the auto-update step fails, the cycle goes
\* on with the HEAD it resolved before the attempt.
C21_FailureKeepsPreUpdateHead ==
  [][AutoPullStepFails => cyc'.head = PreUpdateHead]_vars

\* C21, amended: when the resolution of the upstream, the pull or the
\* re-resolution of HEAD fails, the cycle goes on with the HEAD it resolved
\* before the attempt; when the count of commits fails, HEAD has been
\* re-resolved after a successful pull and the cycle goes on with the
\* re-resolved HEAD.
C21_FailureKeepsHeadUnlessReResolved ==
  [][ /\ (AutoPullStepFails /\ pc # "revListCount") => cyc'.head = PreUpdateHead
      /\ (AutoPullStepFails /\ pc = "revListCount")
         => /\ cyc'.head = cyc.head
            /\ cyc'.oldHead = cyc.oldHead
      /\ (pc = "revParseNewHead" /\ pc' = "revListCount")
         => cyc'.head \in { Trim(r.stdout) : r \in ExecResults("revParseNewHead") \ { Thrown } }
    ]_vars

\* the count of commits has just thrown after a pull that moved HEAD: the
\* cycle awaits the check of the working tree with the re-resolved HEAD
C21_Witness ==
  /\ pc = "statusTracked"
  /\ Len(out) = 2
  /\ out[1].kind = "settled"
  /\ out[1].op = "revListCount"
  /\ out[1].threw
  /\ cyc.head = PulledCommit
  /\ cyc.oldHead = HeadCommit

\* the auto-pulled events of out
AutoPulledEvents(o) == SelectSeq(o, LAMBDA e : e.kind = "autoPulled")

\* the information messages of out
InformationMessages(o) == SelectSeq(o, LAMBDA e : e.kind = "informationMessage")

\* the count of commits has just settled without a failure
CountSettles ==
  /\ pc = "revListCount"
  /\ Len(out') > 0
  /\ out'[1].kind = "settled"
  /\ out'[1].op = "revListCount"
  /\ ~out'[1].threw

\* C22 as stated: an auto-pulled event is fired only by the step in which the
\* count of commits settles after a successful pull under autoPull, it
\* carries the re-resolved HEAD, and it is never fired with a count of zero.
C22_ZeroCountSuppressesEvent ==
  [][\A i \in 1..Len(out') :
       out'[i].kind = "autoPulled"
       => /\ CountSettles
          /\ cyc.autoPull
          /\ out'[i].newHead = cyc.head
          /\ out'[i].commitCount # 0]_vars

\* C22, amended: an auto-pulled event is fired only by the step in which the
\* count of commits settles after a successful pull under autoPull, and that
\* step fires exactly one, carrying the count and the re-resolved HEAD, also
\* when the count is zero; the listener shows its message exactly when the
\* count is not zero; no other step, and so no cycle with autoPull off and no
\* auto-update that was skipped or failed, fires the event or shows the
\* message.
C22_EventAfterSuccessfulPull ==
  [][ /\ \A i \in 1..Len(out') :
           out'[i].kind \in { "autoPulled", "informationMessage" }
           => /\ CountSettles
              /\ cyc.autoPull
              /\ config.autoPull
              /\ cyc.oldHead # << >>
      /\ CountSettles
         => /\ Len(AutoPulledEvents(out')) = 1
            /\ AutoPulledEvents(out')[1].newHead = cyc.head
            /\ AutoPulledEvents(out')[1].commitCount \in Nat
            /\ InformationMessages(out')
                 = (IF AutoPulledEvents(out')[1].commitCount = 0 THEN << >>
                    ELSE << InformationMessage(AutoPulledEvents(out')[1].commitCount) >>)
    ]_vars

\* the count of commits has just settled as zero: the event was fired with
\* it and no message was shown
C22_Witness ==
  /\ pc = "statusTracked"
  /\ Len(out) = 3
  /\ out[1].kind = "settled"
  /\ out[1].op = "revListCount"
  /\ out[2] = AutoPulledEvent(0, PulledCommit)

\* the calls that modify the working tree
TreeModifyingOps == { "pullRebase" }

\* C23: a step issues the pull only under autoPull, as the resolution of the
\* upstream settles with exit code 0 and an identifier other than HEAD; a
\* cycle that has issued the pull finds no modified tracked file when it
\* checks the working tree afterwards, the tree having been clean when the
\* pull was issued; and a cycle with autoPull off issues no call that
\* modifies the working tree.
C23_PullOnlyWhenCleanAndBehind ==
  /\ [][\A i \in 1..Len(out') :
          (out'[i].kind = "call" /\ out'[i].op \in TreeModifyingOps)
          => /\ cyc.autoPull
             /\ config.autoPull
             /\ pc = "upstream"
             /\ out'[1].kind = "settled"
             /\ out'[1].op = "upstream"
             /\ ~out'[1].threw
             /\ out'[1].exitCode = 0
             /\ cyc'.oldHead = cyc.head]_vars
  /\ [](pc = "stashCreate" => cyc.oldHead = << >>)

\* the call op the cycle awaits has just settled
StepSettles(op) ==
  /\ pc = op
  /\ Len(out') > 0
  /\ out'[1].kind = "settled"
  /\ out'[1].op = op

\* the identifiers gitStashCreate may print
StashIds ==
  { Trim(r.stdout) : r \in ExecResults("stashCreate") \ { Thrown } } \ { << >> }

\* the local side of the merge simulation the step has just called
LocalSideCalled(o) ==
  { IF o[i].op = "mergeTreeLegacy" THEN o[i].args[2] ELSE o[i].args[1] :
      i \in { n \in 1..Len(o) : o[n].kind = "call" /\ o[n].op \in MergeOps } }

\* C24: the throwaway snapshot is asked for only when the check of tracked
\* files succeeded with output; the cycle's dirtyTreeUsed becomes true exactly
\* in the step where that call settles with an identifier, which then
\* replaces head; when the check or the call throws or prints nothing, head
\* stays and dirtyTreeUsed stays false; no later step of the cycle changes
\* either; the merge simulation is called with that head as its local side;
\* and the concluding clean or conflicts snapshot carries the cycle's
\* dirtyTreeUsed.
C24_DirtyTreeUsed ==
  [][ /\ StepSettles("statusTracked")
         => /\ cyc'.head = cyc.head
            /\ ~cyc'.dirtyTreeUsed
            /\ pc' = (IF out'[1].threw \/ out'[1].blank THEN "revParseTree"
                      ELSE "stashCreate")
      /\ StepSettles("stashCreate")
         => /\ pc' = "revParseTree"
            /\ cyc'.dirtyTreeUsed = (~out'[1].threw /\ ~out'[1].blank)
            /\ IF cyc'.dirtyTreeUsed
               THEN cyc'.head \in StashIds /\ cyc'.head # cyc.head
               ELSE cyc'.head = cyc.head
      /\ (isRunning' /\ cyc'.dirtyTreeUsed # cyc.dirtyTreeUsed)
         => StepSettles("stashCreate")
      /\ (isRunning' /\ pc \in { "revParseTree" } \cup MergeOps)
         => cyc'.head = cyc.head
      /\ LocalSideCalled(out') \subseteq { cyc'.head }
      /\ (isRunning /\ ~isRunning' /\ Len(CycleEvents(out')) = 1
          /\ CycleEvents(out')[1].snapshot.status \in { "clean", "conflicts" })
         => CycleEvents(out')[1].snapshot.dirtyTreeUsed = BoolField(cyc.dirtyTreeUsed)
    ]_vars

\* a cycle whose throwaway snapshot replaced head has just concluded with a
\* conflicts snapshot
C24_Witness ==
  /\ ~isRunning
  /\ Len(out) = 2
  /\ out[1].kind = "settled"
  /\ out[1].op = "mergeTreeModern"
  /\ IsCycleEvent(out[2])
  /\ out[2].snapshot.status = "conflicts"
  /\ out[2].snapshot.dirtyTreeUsed = BoolField(TRUE)

\* the place of each call in the order of checkNow
CallRank(op) ==
  CASE op = "fetch" -> 1
    [] op = "revParseHead" -> 2
    [] op = "revParseRemote" -> 3
    [] op = "upstream" -> 4
    [] op = "pullRebase" -> 5
    [] op = "revParseNewHead" -> 6
    [] op = "revListCount" -> 7
    [] op = "statusTracked" -> 8
    [] op = "stashCreate" -> 9
    [] op = "revParseTree" -> 10
    [] op = "mergeTreeModern" -> 11
    [] op = "mergeBase" -> 11
    [] op = "mergeTreeLegacy" -> 12

\* the calls a cycle has just issued: every call but start()'s gitVersion
CycleCalls(o) == SelectSeq(o, LAMBDA e : e.kind = "call" /\ e.op # "version")

\* the calls of a cycle that have just settled
CycleSettles(o) == SelectSeq(o, LAMBDA e : e.kind = "settled" /\ e.op # "version")

\* C25: a step issues at most one call of a cycle; the fetch is issued by the
\* step that starts the cycle and every other call by the step in which the
\* call the cycle awaited settles, and it comes later in the order fetch,
\* HEAD, remote ref, auto-update (only under autoPull), check of the working
\* tree, tree of head, merge simulation; the only call that settles is the
\* one the cycle awaits; and when the fetch or the resolution of HEAD or of
\* the remote ref throws, the step issues no call and the cycle ends.
C25_CallsInSequence ==
  [][ /\ Len(CycleCalls(out')) <= 1
      /\ Len(CycleSettles(out')) <= 1
      /\ \A i \in 1..Len(out') :
           (out'[i].kind = "settled" /\ out'[i].op # "version")
           => i = 1 /\ isRunning /\ out'[i].op = pc
      /\ \A i \in 1..Len(out') :
           (out'[i].kind = "call" /\ out'[i].op # "version")
           => /\ isRunning'
              /\ pc' = out'[i].op
              /\ IF out'[i].op = "fetch"
                 THEN ~isRunning /\ pc = "idle" /\ CycleSettles(out') = << >>
                 ELSE /\ StepSettles(pc)
                      /\ CallRank(pc) < CallRank(out'[i].op)
              /\ out'[i].op \in AutoPullOps => cyc'.autoPull
      /\ (pc' # pc /\ pc' # "idle") => Len(CycleCalls(out')) = 1
      /\ (pc \in { "fetch", "revParseHead", "revParseRemote" } /\ StepSettles(pc)
          /\ out'[1].threw)
         => /\ CycleCalls(out') = << >>
            /\ ~isRunning'
            /\ pc' = "idle"
    ]_vars

\* the resolution of HEAD has just thrown: the cycle is over and no call was
\* issued
C25_Witness ==
  /\ ~isRunning
  /\ pc = "idle"
  /\ Len(out) = 2
  /\ out[1].kind = "settled"
  /\ out[1].op = "revParseHead"
  /\ out[1].threw
  /\ CycleCalls(out) = << >>

\* the modern parser has just answered for a text with exit code 1
ModernConflictParsed ==
  /\ Len(out) = 1
  /\ out[1].kind = "parsed"
  /\ out[1].parser = "modern"
  /\ out[1].exitCode = 1

\* the position of the first empty line after line 0, or one past the end
FirstBlankAt(lines) ==
  LET blanks == { i \in 2..Len(lines) : lines[i] = << >> }
  IN  IF blanks = { } THEN Len(lines) + 1
      ELSE CHOOSE i \in blanks : \A j \in blanks : i <= j

\* the lines after line 0 and before the first empty line, and the lines
\* after the first empty line
StageSection(lines) == SubSeq(lines, 2, FirstBlankAt(lines) - 1)
TrailingSection(lines) == SubSeq(lines, FirstBlankAt(lines) + 1, Len(lines))

\* the line has the shape mode, 40-hex identifier, stage 1, 2 or 3, TAB, path
HasStageShape(line) ==
  LET match == MatchModernStage(line)
  IN  IF match = Undefined THEN FALSE ELSE match.stage \in { "1", "2", "3" }

\* a sequence without the later repetitions of its elements
RECURSIVE FirstAppearances(_)
FirstAppearances(s) ==
  IF s = << >> THEN << >>
  ELSE LET before == FirstAppearances(SubSeq(s, 1, Len(s) - 1))
           last == s[Len(s)]
       IN  IF \E i \in 1..Len(before) : before[i] = last THEN before
           ELSE Append(before, last)

\* the paths of the lines of stage shape of a section, in input order
StagePaths(section) ==
  LET shaped == SelectSeq(section, HasStageShape)
  IN  [i \in 1..Len(shaped) |-> MatchModernStage(shaped[i]).filepath]

\* C27: at exit code 1 the messages are the lines of the stage section that
\* have not the stage shape (a stage digit other than 1, 2 or 3 included),
\* verbatim and in order, followed by the non-empty lines after the first
\* empty line, stage-shaped or not; and the entries are those of the paths of
\* the stage-shaped lines of the stage section, so that a line that is a
\* message creates no entry.
C27_StageShapeOrMessage ==
  ModernConflictParsed
  => LET lines == SplitLines(out[1].stdout)
         result == out[1].result
     IN  /\ result.messages
              = SelectSeq(StageSection(lines), LAMBDA l : ~HasStageShape(l))
                  \o SelectSeq(TrailingSection(lines), LAMBDA l : l # << >>)
         /\ FilePaths(result) = FirstAppearances(StagePaths(StageSection(lines)))

\* the identifier the last line of stage shape of a section gives to a path
\* at a stage, or the sentinel when the section has no such line
StageOid(section, filepath, stage) ==
  LET at == { i \in 1..Len(section) :
                /\ HasStageShape(section[i])
                /\ MatchModernStage(section[i]).filepath = filepath
                /\ MatchModernStage(section[i]).stage = stage }
  IN  IF at = { } THEN EMPTY_OID
      ELSE MatchModernStage(section[CHOOSE i \in at : \A j \in at : i >= j]).oid

\* C26: at exit code 1 conflictFiles has one entry for each distinct path of
\* the stage lines, in the order in which the paths first appear; the baseOid
\* of an entry is the sentinel exactly when the path has no stage-1 line, and
\* otherwise the identifier of its stage-1 line (the last one, when
\* repeated); likewise oursOid for stage 2 and theirsOid for stage 3.
C26_OneEntryPerPath ==
  ModernConflictParsed
  => LET section == StageSection(SplitLines(out[1].stdout))
         paths == FirstAppearances(StagePaths(section))
         files == out[1].result.conflictFiles
     IN  /\ Len(files) = Len(paths)
         /\ \A i \in 1..Len(files) :
              /\ i <= Len(paths)
              /\ files[i].filepath = paths[i]
              /\ files[i].baseOid = StageOid(section, paths[i], "1")
              /\ files[i].oursOid = StageOid(section, paths[i], "2")
              /\ files[i].theirsOid = StageOid(section, paths[i], "3")
              /\ (files[i].baseOid = EMPTY_OID)
                   <=> ~\E k \in 1..Len(section) :
                          /\ HasStageShape(section[k])
                          /\ MatchModernStage(section[k]).filepath = paths[i]
                          /\ MatchModernStage(section[k]).stage = "1"

\* the text up to its first line feed, or all of it when it has none
FirstLineOf(text) ==
  LET feeds == { i \in 1..Len(text) : text[i] = "\n" }
  IN  IF feeds = { } THEN text
      ELSE SubSeq(text, 1, (CHOOSE i \in feeds : \A j \in feeds : i <= j) - 1)

\* C28: at exit code 0 the modern parser answers, for every text, no
\* conflicts, no conflict files, no messages and the first line trimmed as
\* toplevelTreeOid, whatever follows the first line.
C28_CleanAtExitZero ==
  (Len(out) = 1 /\ out[1].kind = "parsed" /\ out[1].parser = "modern"
   /\ out[1].exitCode = 0)
  => out[1].result
       = [hasConflicts |-> FALSE,
          toplevelTreeOid |-> Trim(FirstLineOf(out[1].stdout)),
          conflictFiles |-> << >>,
          messages |-> << >>]

\* the parser has answered at exit code 0 for a text whose first line has
\* white space around the tree and whose later lines are a stage line and a
\* message
C28_Witness ==
  /\ Len(out) = 1
  /\ out[1].kind = "parsed"
  /\ out[1].parser = "modern"
  /\ out[1].exitCode = 0
  /\ out[1].stdout
       = JoinLines(<< << " " >> \o TreeLine \o << " " >>,
                      ModernStageLine(OidOf("b"), "2", PathNames[1]),
                      InfoLine >>)
  /\ out[1].result.toplevelTreeOid = TreeLine
  /\ out[1].result.conflictFiles = << >>

\* a parser has just answered
Parsed == Len(out) = 1 /\ out[1].kind = "parsed"

\* C29: whatever the text, either parser answers with hasConflicts equal to
\* conflictFiles being non-empty and with no two entries of conflictFiles
\* for the same path; and for the empty text the modern parser answers, at
\* exit code 0 and at exit code 1, no conflicts, no files, no messages and
\* the empty string as toplevelTreeOid.
C29_HasConflictsIffFiles ==
  Parsed
  => LET result == out[1].result
         files == result.conflictFiles
     IN  /\ result.hasConflicts = (Len(files) > 0)
         /\ \A i, j \in 1..Len(files) :
              files[i].filepath = files[j].filepath => i = j
         /\ (out[1].parser = "modern" /\ out[1].stdout = << >>)
            => result = [hasConflicts |-> FALSE, toplevelTreeOid |-> << >>,
                         conflictFiles |-> << >>, messages |-> << >>]

\* the modern parser has answered at exit code 1 for three stage lines of
\* one path: one entry
C29_Witness ==
  /\ Parsed
  /\ out[1].parser = "modern"
  /\ out[1].exitCode = 1
  /\ out[1].stdout
       = JoinLines(<< TreeLine,
                      ModernStageLine(OidOf("a"), "1", PathNames[1]),
                      ModernStageLine(OidOf("b"), "2", PathNames[1]),
                      ModernStageLine(OidOf("c"), "3", PathNames[1]) >>)
  /\ out[1].result.hasConflicts
  /\ Len(out[1].result.conflictFiles) = 1

\* the line ends a block: it is empty or it does not begin with white space
EndsBlock(line) == line = << >> \/ line[1] \notin WhiteSpace

\* line i lies inside a block: a header precedes it and no line between the
\* header and it ends the block
InsideBlock(lines, i) ==
  \E h \in 1..(i - 1) :
    /\ IsLegacyBlockHeader(lines[h])
    /\ \A k \in (h + 1)..(i - 1) : ~EndsBlock(lines[k])

\* the positions of the content lines that lie inside a block
Contributing(lines) ==
  { i \in 1..Len(lines) :
      /\ MatchLegacyContent(lines[i]) # Undefined
      /\ InsideBlock(lines, i) }

\* the identifier the last contributing line of a side gives to a path, or
\* the sentinel when no contributing line is of that path and side
SideOid(lines, filepath, side) ==
  LET at == { i \in Contributing(lines) :
                /\ MatchLegacyContent(lines[i]).filepath = filepath
                /\ MatchLegacyContent(lines[i]).side = side }
  IN  IF at = { } THEN EMPTY_OID
      ELSE MatchLegacyContent(lines[CHOOSE i \in at : \A j \in at : i >= j]).oid

\* the paths of the contributing lines, in input order
ContributingPaths(lines) ==
  LET at == SelectSeq([i \in 1..Len(lines) |-> i],
                      LAMBDA i : i \in Contributing(lines))
  IN  [n \in 1..Len(at) |-> MatchLegacyContent(lines[at[n]]).filepath]

\* C30: the legacy parser answers with one entry for each path of the content
\* lines that lie inside a block, in first-appearance order over the whole
\* text, a block running from a header line to the next empty or
\* non-indented line, with a header that ends a block starting the next one;
\* content lines before the first header or outside a block give nothing;
\* each identifier of an entry is that of the path's content line of that
\* side, and the sentinel when there is none, so for baseOid when the path
\* has no base line; the result has no tree and no messages.
C30_LegacyBlocks ==
  (Parsed /\ out[1].parser = "legacy")
  => LET lines == SplitLines(out[1].stdout)
         paths == FirstAppearances(ContributingPaths(lines))
         files == out[1].result.conflictFiles
     IN  /\ Len(files) = Len(paths)
         /\ \A i \in 1..Len(files) :
              /\ i <= Len(paths)
              /\ files[i].filepath = paths[i]
              /\ files[i].baseOid = SideOid(lines, paths[i], LegacySides[1])
              /\ files[i].oursOid = SideOid(lines, paths[i], LegacySides[2])
              /\ files[i].theirsOid = SideOid(lines, paths[i], LegacySides[3])
         /\ out[1].result.toplevelTreeOid = << >>
         /\ out[1].result.messages = << >>

\* the legacy parser has answered for a content line before the first
\* header, a header, a content line of another path without a base line, and
\* a line that is not indented: one entry, its baseOid the sentinel
C30_Witness ==
  /\ Parsed
  /\ out[1].parser = "legacy"
  /\ out[1].stdout
       = JoinLines(<< LegacyContentLine(LegacySides[1], OidOf("a"), PathNames[1]),
                      ChangedInBoth,
                      LegacyContentLine(LegacySides[2], OidOf("d"), PathNames[2]),
                      InfoLine >>)
  /\ out[1].result.conflictFiles
       = << [filepath |-> PathNames[2], baseOid |-> EMPTY_OID,
             oursOid |-> OidOf("d"), theirsOid |-> EMPTY_OID] >>

\* C31: whatever the text, the legacy parser answers with the empty string as
\* toplevelTreeOid and with no messages, and with hasConflicts true exactly
\* when an entry was assembled, that is when some content line lies inside a
\* block.
C31_LegacyTreeMessagesAndFlag ==
  (Parsed /\ out[1].parser = "legacy")
  => LET result == out[1].result
         lines == SplitLines(out[1].stdout)
     IN  /\ result.toplevelTreeOid = << >>
         /\ result.messages = << >>
         /\ result.hasConflicts = (Contributing(lines) # { })
         /\ result.hasConflicts = (result.conflictFiles # << >>)

\* the legacy parser has answered for a header followed only by lines that
\* are no content lines: headers and text, yet no entry and no conflicts
C31_Witness ==
  /\ Parsed
  /\ out[1].parser = "legacy"
  /\ out[1].stdout = JoinLines(<< ChangedInBoth, IndentedOtherLine, InfoLine >>)
  /\ out[1].result
       = [hasConflicts |-> FALSE, toplevelTreeOid |-> << >>,
          conflictFiles |-> << >>, messages |-> << >>]

\* exec has just answered an operation
ExecAnswered == Len(out) = 1 /\ out[1].kind = "exec"

\* C32: exec answers an operation with a result, the output and the exit code
\* of its process, when the process exits with 0 or with a non-zero code the
\* operation passes as expected; for every other end of the process, an exit
\* code outside the expected set, the timeout or the output limit, exec
\* throws and hands over no result.
C32_ExecResultOrFailure ==
  ExecAnswered
  => LET outcome == out[1].outcome
         result == out[1].result
         expected == /\ outcome.kind = "exit"
                     /\ \/ outcome.code = 0
                        \/ outcome.code \in AllowedExitCodes(out[1].op)
     IN  IF expected
         THEN /\ result # Thrown
              /\ result = [stdout |-> outcome.stdout, exitCode |-> outcome.code]
         ELSE result = Thrown

\* git pull --rebase has exited with 1, which it passes as expected, and a
\* result with that exit code came back
C32_Witness ==
  /\ ExecAnswered
  /\ out[1].op = "pullRebase"
  /\ out[1].outcome = ProcessExit(1, << "x" >> \o NL)
  /\ out[1].result = [stdout |-> << "x" >> \o NL, exitCode |-> 1]

\* C33: whatever the settings, every interval the detector has started runs
\* with a period of at least MIN_POLL_SECONDS seconds: the timer never fires
\* more often than every 10 seconds.
C33_TimerPeriodAtLeastMinimum ==
  \A i \in intervals : i.intervalMs >= MIN_POLL_SECONDS * MS_PER_SECOND

\* the step publishes a checking or a paused snapshot
PublishesTransient ==
  \E i \in 1..Len(out') :
    /\ IsSnapshotEvent(out'[i])
    /\ out'[i].snapshot.status \in { "checking", "paused" }

\* C34: the retained snapshot never has status checking or paused; a step
\* that publishes a checking or a paused snapshot reports it with the fixed
\* change and leaves the retained snapshot as it was; so a cycle that
\* concludes with the status and the conflicting paths of the retained
\* snapshot, whatever checking and paused snapshots were published since it
\* was retained, reports neither changed nor isNewConflict.
C34_TransientSnapshotsBypassDiffer ==
  /\ [](previous # Undefined => previous.status \notin { "checking", "paused" })
  /\ [][ /\ PublishesTransient
            => /\ previous' = previous
               /\ \A i \in 1..Len(out') :
                    IsSnapshotEvent(out'[i]) => out'[i].change = NoDifferChange
         /\ \A i \in 1..Len(out') :
              (/\ IsCycleEvent(out'[i])
               /\ out'[i].snapshot.status # "checking"
               /\ previous # Undefined
               /\ out'[i].snapshot.status = previous.status
               /\ PathSet(out'[i].snapshot) = PathSet(previous))
              => out'[i].change = NoChange ]_vars

\* a cycle was in flight when the detector was paused, and it has just
\* concluded with the conflicting paths retained before: nothing changed
C34_Witness ==
  /\ isPaused
  /\ previous # Undefined
  /\ Len(out) = 2
  /\ IsCycleEvent(out[2])
  /\ out[2].snapshot.status = "conflicts"
  /\ Len(out[2].snapshot.conflictFiles) = 2
  /\ out[2].change = NoChange

\* the step publishes the concluding snapshot of a cycle
PublishesConcluding ==
  \E i \in 1..Len(out') :
    /\ IsCycleEvent(out'[i])
    /\ out'[i].snapshot.status \in { "clean", "conflicts", "error" }

\* C35: the guard is set exactly while a cycle is in flight; the step that
\* concludes a cycle, with clean, with conflicts or with an error of any
\* kind, releases the guard; and whenever checkNow is entered with the guard
\* released, whatever the last cycle concluded with, a new cycle starts: the
\* guard is set, the checking snapshot is published and the fetch is issued.
C35_GuardReleasedOnEveryExit ==
  /\ [](isRunning <=> pc \in Ops \ { "version" })
  /\ [][ /\ PublishesConcluding => (isRunning /\ ~isRunning' /\ pc' = "idle")
         /\ (~isRunning /\ \E i \in 1..Len(out') : out'[i] = CheckNowEntered)
            => /\ isRunning'
               /\ pc' = "fetch"
               /\ \E i \in 1..Len(out') :
                    /\ IsCycleEvent(out'[i])
                    /\ out'[i].snapshot.status = "checking"
               /\ \E i \in 1..Len(out') : out'[i] = CallOut("fetch", << >>) ]_vars

\* a cycle has just started although the last one failed at the merge
\* simulation
C35_Witness ==
  /\ isRunning
  /\ pc = "fetch"
  /\ previous # Undefined
  /\ previous.status = "error"
  /\ previous.errorKind = "merge-tree-failed"
  /\ \E i \in 1..Len(out) : out[i] = CheckNowEntered

\* C36: in the state in which a snapshot was just published by a concluding
\* cycle or by markResolved, none of its conflicting paths is in
\* resolvedFiles, and none of the retained snapshot's is, whatever the
\* interleaving of cycles and markResolved calls, a markResolved made while a
\* cycle is in flight included.
C36_PublishedFilesUnresolved ==
  /\ \A i \in 1..Len(out) :
       (IsSnapshotEvent(out[i]) /\ out[i].origin \in { "checkNow", "markResolved" })
       => PathSet(out[i].snapshot) \cap resolvedFiles = { }
  /\ previous # Undefined => PathSet(previous) \cap resolvedFiles = { }

\* markResolved was called while the next cycle awaits the merge simulation,
\* and published the one path that is left
C36_Witness ==
  /\ isRunning
  /\ pc = "mergeTreeModern"
  /\ Len(out) = 2
  /\ out[1] = MarkResolvedEntered(PathNames[1])
  /\ out[2].origin = "markResolved"
  /\ PathSet(out[2].snapshot) = { PathNames[2] }
  /\ resolvedFiles = { PathNames[1] }

\* the step is a markResolved(p) that publishes a snapshot
MarkResolvedPublishes(p) ==
  /\ Len(out') = 2
  /\ out'[1] = MarkResolvedEntered(p)
  /\ IsSnapshotEvent(out'[2])

NewConflictChange == [changed |-> TRUE, isNewConflict |-> TRUE]

\* C37, as claimed: every markResolved that publishes a snapshot with a
\* conflicting path left reports changed and isNewConflict, and every one that
\* publishes clean reports changed and no new conflict.
C37_MarkResolvedAlwaysReportsChange ==
  [][ \A p \in Paths :
        MarkResolvedPublishes(p)
        => /\ out'[2].snapshot.status = "conflicts"
              => out'[2].change = NewConflictChange
           /\ out'[2].snapshot.status = "clean"
              => out'[2].change = NoDifferChange ]_vars

\* C37: a markResolved of a path that is among the conflicting paths of the
\* retained snapshot and that leaves a conflicting path reports changed and
\* isNewConflict; a markResolved that resolves the last path reports changed
\* and no new conflict.
C37_MarkResolvedOfListedPath ==
  [][ \A p \in Paths :
        MarkResolvedPublishes(p)
        => /\ (p \in PathSet(previous) /\ out'[2].snapshot.status = "conflicts")
              => out'[2].change = NewConflictChange
           /\ out'[2].snapshot.status = "clean"
              => /\ PathSet(previous) = { p }
                 /\ out'[2].change = NoDifferChange ]_vars

\* the first of two conflicting paths has just been marked resolved: the one
\* that is left is reported as a new conflict
C37_Witness ==
  /\ Len(out) = 2
  /\ out[1] = MarkResolvedEntered(PathNames[1])
  /\ out[2].snapshot.status = "conflicts"
  /\ PathSet(out[2].snapshot) = { PathNames[2] }
  /\ out[2].change = NewConflictChange
  /\ resolvedFiles = { PathNames[1] }

\* C38: while paused a timer tick publishes nothing and starts nothing, but
\* the checkNow command with no cycle in flight starts a cycle and publishes
\* its checking snapshot, and each step of a cycle in flight goes on to the
\* next call or concludes with one snapshot of status clean, conflicts or
\* error, the paused flag staying set throughout: the snapshot published last
\* while the flag is set need not have status paused.
C38_OnlyTicksSuppressedWhilePaused ==
  [][ /\ (isPaused /\ Len(out') > 0 /\ out'[1] = TimerFired)
         => /\ \A i \in 1..Len(out') : ~IsSnapshotEvent(out'[i])
            /\ UNCHANGED << isRunning, pc, isPaused >>
      /\ (isPaused /\ ~isRunning /\ Len(out') > 0 /\ out'[1] = CheckNowEntered)
         => /\ isPaused'
            /\ isRunning'
            /\ Len(out') = 3
            /\ IsCycleEvent(out'[2])
            /\ out'[2].snapshot.status = "checking"
            /\ out'[3] = CallOut("fetch", << >>)
      /\ (isPaused /\ isRunning /\ Len(out') > 0 /\ out'[1].kind = "settled"
            /\ out'[1].op # "version")
         => /\ isPaused'
            /\ IF pc' = "idle"
               THEN /\ Len(CycleEvents(out')) = 1
                    /\ CycleEvents(out')[1].snapshot.status
                         \in { "clean", "conflicts", "error" }
               ELSE /\ isRunning'
                    /\ out'[Len(out')].kind = "call"
                    /\ out'[Len(out')].op = pc' ]_vars

\* the command has just started a cycle while paused: the snapshot published
\* last has status checking
C38_Witness ==
  /\ isPaused
  /\ isRunning
  /\ pc = "fetch"
  /\ Len(out) = 3
  /\ out[1] = CheckNowEntered
  /\ out[2].snapshot.status = "checking"

\* C39: once dispose() has run none of the host's intervals started by the
\* detector is set, and no tick of one starts a cycle, whatever the
\* interleaving of dispose() with start(), restartTimer() and a cycle in
\* flight.
C39_NoTimerAfterDispose ==
  /\ [](disposed => intervals = { })
  /\ [][ (disposed /\ Len(out') > 0 /\ out'[1] = TimerFired)
         => UNCHANGED << isRunning, pc >> ]_vars

\* the snapshots handed to the differ that have the status and the set of
\* conflicting paths of snapshot; undefined stands for itself
AlikeToDiffer(snapshot) ==
  IF snapshot = Undefined THEN { Undefined }
  ELSE { s \in DetailedSnapshots :
           s.status = snapshot.status /\ PathSet(s) = PathSet(snapshot) }

\* C40: the StateChange of an update is that of every update of a retained
\* snapshot with the same status and set of conflicting paths by a snapshot
\* with the same status and set of conflicting paths, whatever their
\* errorKind, errorMessage, object identifiers, toplevelTreeOid, dirtyTreeUsed,
\* timestamp and order of paths; so error after error of another errorKind
\* reports no change.
C40_ChangeDependsOnStatusAndPaths ==
  DifferUpdated
  => /\ \A p \in AlikeToDiffer(out[1].prior), s \in AlikeToDiffer(out[1].snapshot) :
          StateChangeOf(p, s) = out[1].change
     /\ (/\ out[1].prior # Undefined
         /\ out[1].prior.status = "error"
         /\ out[1].snapshot.status = "error")
        => out[1].change = NoChange

\* a branch-missing error has just followed a fetch-failed error with another
\* message at another time: no change
C40_Witness ==
  /\ DifferUpdated
  /\ out[1].prior # Undefined
  /\ out[1].prior.errorKind = "fetch-failed"
  /\ out[1].prior.errorMessage = "message"
  /\ out[1].snapshot.errorKind = "branch-missing"
  /\ out[1].snapshot.errorMessage = "other"
  /\ out[1].snapshot.timestamp # out[1].prior.timestamp
  /\ out[1].change = NoChange

====
